---------------------------- MODULE Spec2Model ----------------------------
(***************************************************************************)
(* A model of the retrieval-augmented-query core of video_analyzer:        *)
(* src/src/services/rag_system.py (class RAGSystem).                       *)
(*                                                                         *)
(* Texts are sequences of one-character strings, so that len(), strip(),   *)
(* re.split() and re.findall() are computed character by character.        *)
(* Chunk ids are real strings built as the f-strings of the source build   *)
(* them.                                                                   *)
(***************************************************************************)
EXTENDS Integers, Sequences, FiniteSets, TLC

(***************************************************************************)
(* Bounds of the model.                                                    *)
(***************************************************************************)
\* longest transcript-segment text the chunking specification draws
MaxLen == 3
\* largest chunk_size the chunking specification draws
MaxChunkSize == 2
\* most transcript segments / notes sections the chunking specification draws
MaxSegments == 1
MaxSections == 1
\* most documents the store returns, and largest max_sources, in the ranking
\* specification
MaxResults == 2
MaxK == 2
\* last second the clock of the lifecycle specifications reaches
MaxClock == 1
\* most full batches of a build in the indexing specification
MaxFullBatches == 2

(***************************************************************************)
(* Characters and texts.                                                   *)
(***************************************************************************)
\* the characters the model draws texts from: a word character, a blank and
\* two of the three sentence terminators of the splitter
Alphabet == {"a", " ", ".", "?"}

\* the character class [.!?] of re.split(r'[.!?]+', ...)
Terminators == {".", "!", "?"}

\* the characters str.strip() removes
Whitespace == {" ", "\t", "\n", "\r"}

Texts(n) == UNION {[1..k -> Alphabet] : k \in 0..n}

\* s.strip()
RECURSIVE LStrip(_)
LStrip(s) ==
    IF s = <<>> THEN <<>>
    ELSE IF Head(s) \in Whitespace THEN LStrip(Tail(s)) ELSE s

RECURSIVE RStrip(_)
RStrip(s) ==
    IF s = <<>> THEN <<>>
    ELSE IF s[Len(s)] \in Whitespace THEN RStrip(SubSeq(s, 1, Len(s) - 1)) ELSE s

Strip(s) == RStrip(LStrip(s))

\* s without its last element
Front(s) == SubSeq(s, 1, Len(s) - 1)

\* re.split(r'[.!?]+', s): the pieces between maximal runs of terminators,
\* empty first and last pieces included.  The pieces of s[lo..hi] are those
\* of its two halves, the last piece of the left half continuing in the
\* first piece of the right half, unless a run of terminators spans the
\* middle (halving keeps the evaluation shallow on long texts)
RECURSIVE ReSplitRange(_, _, _)
ReSplitRange(s, lo, hi) ==
    IF lo = hi
    THEN IF s[lo] \in Terminators THEN <<<<>>, <<>>>> ELSE <<<<s[lo]>>>>
    ELSE LET mid == (lo + hi) \div 2
             left == ReSplitRange(s, lo, mid)
             right == ReSplitRange(s, mid + 1, hi)
         IN IF s[mid] \in Terminators /\ s[mid + 1] \in Terminators
            THEN Front(left) \o Tail(right)
            ELSE Front(left) \o <<left[Len(left)] \o Head(right)>> \o Tail(right)

ReSplit(s) == IF s = <<>> THEN <<<<>>>> ELSE ReSplitRange(s, 1, Len(s))

(***************************************************************************)
(* ChunkBuilder: _create_chunks and _split_large_chunk.                    *)
(***************************************************************************)
\* a dictionary key that is absent: segment.get('text', '') yields ''
Missing == <<"<missing>">>

GetText(segment) == IF segment.text = Missing THEN <<>> ELSE segment.text

\* dict.get(key, default)
Get(dict, key, default) == IF key \in DOMAIN dict THEN dict[key] ELSE default

\* the default '00:00' of lines 60, 80, 98 and 116
DEFAULT_TIMESTAMP == <<"0", "0", ":", "0", "0">>

\* a transcript chunk whose metadata type is its source
TranscriptChunk_source_as_type(segment, chunk_id) ==
    [id |-> "transcript_" \o ToString(chunk_id), content |-> GetText(segment),
     source |-> "transcript", type |-> "transcript",
     timestamp |-> Get(segment, "start", DEFAULT_TIMESTAMP),
     section_title |-> Missing,
     metadata |-> [type |-> "transcript",
                   start_time |-> Get(segment, "start", DEFAULT_TIMESTAMP),
                   end_time |-> Get(segment, "end", DEFAULT_TIMESTAMP)]]

\* the chunk dictionaries of lines 56-67, 76-87, 94-105 and 112-123; type
\* repeats metadata['type'], and a transcript chunk has no section_title
TranscriptChunk(segment, chunk_id) ==
    [id |-> "transcript_" \o ToString(chunk_id), content |-> GetText(segment),
     source |-> "transcript", type |-> "transcript_segment",
     timestamp |-> Get(segment, "start", DEFAULT_TIMESTAMP),
     section_title |-> Missing,
     metadata |-> [type |-> "transcript_segment",
                   start_time |-> Get(segment, "start", DEFAULT_TIMESTAMP),
                   end_time |-> Get(segment, "end", DEFAULT_TIMESTAMP)]]

NotesChunk(section, chunk_id) ==
    [id |-> "notes_" \o ToString(chunk_id), content |-> section.content,
     source |-> "notes", type |-> "notes_section",
     timestamp |-> Get(section, "timestamp", DEFAULT_TIMESTAMP),
     section_title |-> Get(section, "title", <<>>),
     metadata |-> [type |-> "notes_section",
                   section_title |-> Get(section, "title", <<>>),
                   timestamp |-> Get(section, "timestamp", DEFAULT_TIMESTAMP)]]

KeyPointChunk(section, point, chunk_id) ==
    [id |-> "keypoint_" \o ToString(chunk_id), content |-> point,
     source |-> "key_points", type |-> "key_point",
     timestamp |-> Get(section, "timestamp", DEFAULT_TIMESTAMP),
     section_title |-> Get(section, "title", <<>>),
     metadata |-> [type |-> "key_point",
                   section_title |-> Get(section, "title", <<>>),
                   timestamp |-> Get(section, "timestamp", DEFAULT_TIMESTAMP)]]

QuoteChunk(section, quote, chunk_id) ==
    [id |-> "quote_" \o ToString(chunk_id), content |-> quote,
     source |-> "quotes", type |-> "quote",
     timestamp |-> Get(section, "timestamp", DEFAULT_TIMESTAMP),
     section_title |-> Get(section, "title", <<>>),
     metadata |-> [type |-> "quote",
                   section_title |-> Get(section, "title", <<>>),
                   timestamp |-> Get(section, "timestamp", DEFAULT_TIMESTAMP)]]

\* a sub-chunk numbered from 1
SubChunk_count_from_one(chunk, chunk_count, current_chunk) ==
    [chunk EXCEPT !.id = chunk.id \o "_" \o ToString(chunk_count + 1),
                  !.content = Strip(current_chunk)]

\* a sub-chunk that keeps the id of the chunk it was split from
SubChunk_parent_id(chunk, chunk_count, current_chunk) ==
    [chunk EXCEPT !.content = Strip(current_chunk)]

\* chunk.copy() with a new id and content (lines 158-160 and 171-173)
SubChunk(chunk, chunk_count, current_chunk) ==
    [chunk EXCEPT !.id = chunk.id \o "_" \o ToString(chunk_count),
                  !.content = Strip(current_chunk)]

\* the separator put between two accumulated sentences (line 167)
Joined(current_chunk, sentence) ==
    IF current_chunk # <<>> THEN current_chunk \o <<".", " ">> \o sentence
    ELSE sentence

\* the test of line 156
WouldExceed(current_chunk, sentence, max_size) ==
    Len(current_chunk) + Len(sentence) > max_size /\ current_chunk # <<>>

\* the loop of lines 150-167 and the final chunk of lines 170-174
RECURSIVE SplitLoop(_, _, _, _, _, _, _)
SplitLoop(chunk, sentences, i, current_chunk, chunk_count, chunks, max_size) ==
    IF i > Len(sentences)
    THEN IF current_chunk # <<>>
         THEN Append(chunks, SubChunk(chunk, chunk_count, current_chunk))
         ELSE chunks
    ELSE LET sentence == Strip(sentences[i]) IN
         IF sentence = <<>>
         THEN SplitLoop(chunk, sentences, i + 1, current_chunk, chunk_count,
                        chunks, max_size)
         ELSE IF WouldExceed(current_chunk, sentence, max_size)
              THEN SplitLoop(chunk, sentences, i + 1, sentence, chunk_count + 1,
                             Append(chunks, SubChunk(chunk, chunk_count, current_chunk)),
                             max_size)
              ELSE SplitLoop(chunk, sentences, i + 1, Joined(current_chunk, sentence),
                             chunk_count, chunks, max_size)

split_large_chunk(chunk, max_size) ==
    SplitLoop(chunk, ReSplit(chunk.content), 1, <<>>, 0, <<>>, max_size)

\* lines 53-69: one candidate per transcript segment, chunk_id counting up
SegmentChunks(segments, chunk_id) ==
    [i \in 1..Len(segments) |-> TranscriptChunk(segments[i], chunk_id + i - 1)]

\* lines 74-125: the candidates of one notes section; section.get('content'),
\* section.get('key_points') and section.get('quotes') are falsy when empty
SectionChunks(section, chunk_id) ==
    LET main == IF section.content # <<>> /\ section.content # Missing
                THEN <<NotesChunk(section, chunk_id)>> ELSE <<>>
        id1 == chunk_id + Len(main)
        points == [i \in 1..Len(section.key_points) |->
                       KeyPointChunk(section, section.key_points[i], id1 + i - 1)]
        id2 == id1 + Len(points)
        quotes == [i \in 1..Len(section.quotes) |->
                       QuoteChunk(section, section.quotes[i], id2 + i - 1)]
    IN main \o points \o quotes

RECURSIVE NotesChunks(_, _, _)
NotesChunks(sections, i, chunk_id) ==
    IF i > Len(sections) THEN <<>>
    ELSE LET these == SectionChunks(sections[i], chunk_id)
         IN these \o NotesChunks(sections, i + 1, chunk_id + Len(these))

\* lines 50-125: the candidate list `chunks`
Candidates(transcript, notes) ==
    LET fromTranscript == SegmentChunks(transcript, 0)
    IN fromTranscript \o NotesChunks(notes, 1, Len(fromTranscript))

\* lines 129-134: what one candidate contributes to final_chunks
SplitOrKeep(chunk, chunk_size) ==
    IF Len(chunk.content) > chunk_size THEN split_large_chunk(chunk, chunk_size)
    ELSE <<chunk>>

\* what each candidate contributes, candidate by candidate
Parts(chunks, chunk_size) ==
    [i \in 1..Len(chunks) |-> SplitOrKeep(chunks[i], chunk_size)]

\* final_chunks.extend / final_chunks.append over the candidates lo..hi in
\* order (halving the range keeps the evaluation shallow on long lists)
RECURSIVE Flatten(_, _, _)
Flatten(parts, lo, hi) ==
    IF lo > hi THEN <<>>
    ELSE IF lo = hi THEN parts[lo]
    ELSE LET mid == (lo + hi) \div 2
         IN Flatten(parts, lo, mid) \o Flatten(parts, mid + 1, hi)

create_chunks(transcript, notes, chunk_size) ==
    LET parts == Parts(Candidates(transcript, notes), chunk_size)
    IN Flatten(parts, 1, Len(parts))

(***************************************************************************)
(* Numbers.  The scores of the source are floats; the model computes them  *)
(* as exact fractions <<numerator, denominator>> in lowest terms with a    *)
(* positive denominator, so that equal scores are equal values.            *)
(***************************************************************************)
RECURSIVE GCD(_, _)
GCD(a, b) == IF b = 0 THEN a ELSE GCD(b, a % b)

Abs(n) == IF n < 0 THEN -n ELSE n

Rat(n, d) ==
    LET g == GCD(Abs(n), Abs(d))
        sign == IF d < 0 THEN -1 ELSE 1
    IN <<(sign * n) \div g, (sign * d) \div g>>

RAdd(x, y) == Rat(x[1] * y[2] + y[1] * x[2], x[2] * y[2])
RSub(x, y) == Rat(x[1] * y[2] - y[1] * x[2], x[2] * y[2])
RMul(x, y) == Rat(x[1] * y[1], x[2] * y[2])
RLess(x, y) == x[1] * y[2] < y[1] * x[2]
RLeq(x, y) == x[1] * y[2] <= y[1] * x[2]
RMin(x, y) == IF RLess(y, x) THEN y ELSE x

Zero == Rat(0, 1)
One == Rat(1, 1)

(***************************************************************************)
(* Reranker: _rerank_chunks, and the tail of _retrieve_relevant_chunks.    *)
(***************************************************************************)
UpperCase == <<"A", "B", "C", "D", "E", "F", "G", "H", "I", "J", "K", "L", "M",
               "N", "O", "P", "Q", "R", "S", "T", "U", "V", "W", "X", "Y", "Z">>
LowerCase == <<"a", "b", "c", "d", "e", "f", "g", "h", "i", "j", "k", "l", "m",
               "n", "o", "p", "q", "r", "s", "t", "u", "v", "w", "x", "y", "z">>
Digits == {"0", "1", "2", "3", "4", "5", "6", "7", "8", "9"}

Range(f) == {f[i] : i \in DOMAIN f}

\* the class \w of the regular expressions
WordChars == Range(UpperCase) \cup Range(LowerCase) \cup Digits \cup {"_"}

LowerChar(c) ==
    IF c \in Range(UpperCase)
    THEN LowerCase[CHOOSE i \in DOMAIN UpperCase : UpperCase[i] = c]
    ELSE c

\* s.lower()
Lower(s) == [i \in DOMAIN s |-> LowerChar(s[i])]

\* re.findall(r'\b\w+\b', s): the maximal runs of word characters, in order
RECURSIVE FindWordsFrom(_, _, _)
FindWordsFrom(s, i, cur) ==
    IF i > Len(s) THEN (IF cur # <<>> THEN <<cur>> ELSE <<>>)
    ELSE IF s[i] \in WordChars THEN FindWordsFrom(s, i + 1, Append(cur, s[i]))
    ELSE (IF cur # <<>> THEN <<cur>> ELSE <<>>) \o FindWordsFrom(s, i + 1, <<>>)

FindWords(s) == FindWordsFrom(s, 1, <<>>)

\* set(re.findall(r'\b\w+\b', text.lower()))
Keywords(text) == Range(FindWords(Lower(text)))

\* line 287
KeywordOverlap(question_keywords, content_keywords) ==
    IF question_keywords # {}
    THEN Rat(Cardinality(question_keywords \cap content_keywords),
             Cardinality(question_keywords))
    ELSE Zero

\* lines 290-294
SourceBoost(type) ==
    IF type = "key_point" THEN Rat(12, 10)
    ELSE IF type = "quote" THEN Rat(11, 10)
    ELSE One

\* line 297 with the two weights exchanged
CombinedScore_weights_swapped(relevance_score, keyword_overlap, source_boost) ==
    RMul(RAdd(RMul(relevance_score, Rat(3, 10)), RMul(keyword_overlap, Rat(7, 10))),
         source_boost)

\* line 297
CombinedScore(relevance_score, keyword_overlap, source_boost) ==
    RMul(RAdd(RMul(relevance_score, Rat(7, 10)), RMul(keyword_overlap, Rat(3, 10))),
         source_boost)

\* the body of the loop of lines 282-297 for one chunk
Rescored(question, chunk) ==
    [chunk EXCEPT !.relevance_score =
        CombinedScore(chunk.relevance_score,
                      KeywordOverlap(Keywords(question), Keywords(chunk.content)),
                      SourceBoost(chunk.type))]

\* an insertion that puts a chunk in front of the chunks of equal score
InsertDescending_before_equals(sorted, x) ==
    LET before == {j \in 1..Len(sorted) :
                       \A m \in 1..j : RLess(x.relevance_score, sorted[m].relevance_score)}
        n == Cardinality(before)
    IN SubSeq(sorted, 1, n) \o <<x>> \o SubSeq(sorted, n + 1, Len(sorted))

\* sorted(chunks, key=relevance_score, reverse=True): Python's sort is stable
\* and keeps the original order of equal keys under reverse=True as well, so
\* a chunk goes behind every chunk whose score is not smaller
InsertDescending(sorted, x) ==
    LET before == {j \in 1..Len(sorted) :
                       \A m \in 1..j : RLeq(x.relevance_score, sorted[m].relevance_score)}
        n == Cardinality(before)
    IN SubSeq(sorted, 1, n) \o <<x>> \o SubSeq(sorted, n + 1, Len(sorted))

RECURSIVE SortedDescending(_, _)
SortedDescending(chunks, n) ==
    IF n = 0 THEN <<>>
    ELSE InsertDescending(SortedDescending(chunks, n - 1), chunks[n])

rerank_chunks(question, chunks) ==
    LET rescored == [i \in 1..Len(chunks) |-> Rescored(question, chunks[i])]
    IN SortedDescending(rescored, Len(rescored))

\* lines 256-264: one structured chunk per document the store returned; a
\* result given without metadata has the metadata of its type alone
StructuredChunk(result) ==
    [content |-> result.document, type |-> result.type,
     metadata |-> Get(result, "metadata", [type |-> result.type]),
     distance |-> result.distance,
     relevance_score |-> RSub(One, result.distance)]

Prefix(s, n) == SubSeq(s, 1, IF n < Len(s) THEN n ELSE Len(s))

\* lines 256-264: the list `chunks` handed to _rerank_chunks
StructuredChunks(results) ==
    [i \in 1..Len(results) |-> StructuredChunk(results[i])]

\* lines 255-269: what _retrieve_relevant_chunks makes of the store's answer
RetrievedFrom(question, results, max_results) ==
    Prefix(rerank_chunks(question, StructuredChunks(results)), max_results)

(***************************************************************************)
(* ConfidenceEstimator: _calculate_confidence.                             *)
(***************************************************************************)
\* len(answer.split()): answer.split() yields the maximal runs of
\* non-whitespace characters, one per position that starts such a run
WordCount(s) ==
    Cardinality({i \in 1..Len(s) :
                    s[i] \notin Whitespace /\ (i = 1 \/ s[i - 1] \in Whitespace)})

\* the word count at which the answer length factor reaches 1.0 (line 453)
FULL_LENGTH_WORDS == 100
\* the number of source types the diversity factor divides by (line 457)
SOURCE_TYPE_COUNT == 4

RECURSIVE SumScores(_, _)
SumScores(chunks, i) ==
    IF i > Len(chunks) THEN Zero
    ELSE RAdd(chunks[i].relevance_score, SumScores(chunks, i + 1))

calculate_confidence(chunks, answer) ==
    IF chunks = <<>> THEN Zero
    ELSE LET avg_relevance == RMul(SumScores(chunks, 1), Rat(1, Len(chunks)))
             answer_length_factor ==
                 RMin(Rat(WordCount(answer), FULL_LENGTH_WORDS), One)
             source_types == {chunks[i].type : i \in 1..Len(chunks)}
             diversity_factor == Rat(Cardinality(source_types), SOURCE_TYPE_COUNT)
             confidence == RAdd(RAdd(RMul(avg_relevance, Rat(6, 10)),
                                     RMul(answer_length_factor, Rat(2, 10))),
                                RMul(diversity_factor, Rat(2, 10)))
         IN RMin(confidence, One)

(***************************************************************************)
(* EmbeddingIndex: _generate_embeddings, _store_chunks and the vector      *)
(* store.  A vector is modelled by its dimension and by what it was        *)
(* computed from: the text the provider embedded, or nothing for the zero  *)
(* vector.                                                                 *)
(***************************************************************************)
\* the dimension of the substituted vectors (line 214), which is the output
\* dimension of all-MiniLM-L6-v2
EMBEDDING_DIM == 384
\* batch_size of _store_chunks (line 181)
BATCH_SIZE == 100
\* the default of the parameter chunk_size (line 20)
DEFAULT_CHUNK_SIZE == 1000

\* [0.0] * 384
ZeroVector == [dim |-> EMBEDDING_DIM, zero |-> TRUE, of |-> <<>>]

\* one row of self.embedding_model.encode(texts)
Encode(text) == [dim |-> EMBEDDING_DIM, zero |-> FALSE, of |-> text]

\* generate_embeddings with a fallback of the wrong dimension
generate_embeddings_wrong_dim(texts, provider_ok) ==
    IF provider_ok THEN [i \in 1..Len(texts) |-> Encode(texts[i])]
    ELSE [i \in 1..Len(texts) |-> [dim |-> 2 * EMBEDDING_DIM, zero |-> TRUE, of |-> <<>>]]

\* lines 204-214: the provider's vectors, or zero vectors when it raises;
\* the exception is printed and swallowed
generate_embeddings(texts, provider_ok) ==
    IF provider_ok THEN [i \in 1..Len(texts) |-> Encode(texts[i])]
    ELSE [i \in 1..Len(texts) |-> ZeroVector]

Min(a, b) == IF a < b THEN a ELSE b

\* chunks[i:i+batch_size] (line 183), i counted from 0
Batch(chunks, i) == SubSeq(chunks, i + 1, Min(i + BATCH_SIZE, Len(chunks)))

\* a call of collection.add whose vectors are moved on by one position
AddCall_vectors_rotated(batch, embeddings) ==
    [ids |-> [j \in 1..Len(batch) |-> batch[j].id],
     documents |-> [j \in 1..Len(batch) |-> batch[j].content],
     metadatas |-> [j \in 1..Len(batch) |-> batch[j].metadata],
     embeddings |-> [j \in 1..Len(embeddings) |->
                        embeddings[(j % Len(embeddings)) + 1]]]

\* the four lists handed to collection.add (lines 186-199)
AddCall(batch, embeddings) ==
    [ids |-> [j \in 1..Len(batch) |-> batch[j].id],
     documents |-> [j \in 1..Len(batch) |-> batch[j].content],
     metadatas |-> [j \in 1..Len(batch) |-> batch[j].metadata],
     embeddings |-> embeddings]

\* the entries the store makes of one call of collection.add: the values
\* at one position of the four lists form one entry
CollectionAdd(call) ==
    [j \in 1..Len(call.ids) |->
        [id |-> call.ids[j], document |-> call.documents[j],
         type |-> call.metadatas[j].type, metadata |-> call.metadatas[j],
         embedding |-> call.embeddings[j]]]

\* the entries of one call of collection.add (lines 186-199)
AddArguments(batch, embeddings) == CollectionAdd(AddCall(batch, embeddings))

\* a value of Python that is None
None == "None"

\* a text field holding None instead of a string
NoneText == <<"<None>">>

\* len(chunk['content']) of line 130 raises TypeError on a content of None
create_chunks_raises(transcript, notes) ==
    \E i \in 1..Len(Candidates(transcript, notes)) :
        Candidates(transcript, notes)[i].content = NoneText

\* the collection name of line 29; the clock is read in whole seconds
CollectionName(now) == "video_content_" \o ToString(now)

\* collection.query (lines 249-253): the n_results nearest documents, nearest
\* first.  The distances are the provider's geometry: distance[i] is the
\* distance of the i-th stored entry from the query vector.
InsertNearest(ranked, x) ==
    LET before == {j \in 1..Len(ranked) :
                       \A m \in 1..j : RLeq(ranked[m].distance, x.distance)}
        n == Cardinality(before)
    IN SubSeq(ranked, 1, n) \o <<x>> \o SubSeq(ranked, n + 1, Len(ranked))

RECURSIVE NearestFirstOrder(_, _, _)
NearestFirstOrder(entries, distance, n) ==
    IF n = 0 THEN <<>>
    ELSE InsertNearest(NearestFirstOrder(entries, distance, n - 1),
                       [document |-> entries[n].document, type |-> entries[n].type,
                        metadata |-> entries[n].metadata,
                        distance |-> distance[n]])

StoreQuery(entries, distance, n_results) ==
    Prefix(NearestFirstOrder(entries, distance, Len(entries)), n_results)

(***************************************************************************)
(* ContextAssembler and the rest of answer_question.                       *)
(***************************************************************************)
\* the text _generate_answer returns when the synthesis call raises (line 347)
APOLOGY ==
    <<"I", " ", "a", "p", "o", "l", "o", "g", "i", "z", "e", ",", " ", "b", "u",
      "t", " ", "I", " ", "e", "n", "c", "o", "u", "n", "t", "e", "r", "e", "d",
      " ", "a", "n", " ", "e", "r", "r", "o", "r", " ", "w", "h", "i", "l", "e",
      " ", "g", "e", "n", "e", "r", "a", "t", "i", "n", "g", " ", "t", "h", "e",
      " ", "a", "n", "s", "w", "e", "r", ".", " ", "P", "l", "e", "a", "s", "e",
      " ", "t", "r", "y", " ", "a", "g", "a", "i", "n", ".">>

\* lines 332-347: the provider's text, stripped, or the apology
generate_answer(provider_ok, provider_text) ==
    IF provider_ok THEN Strip(provider_text) ELSE APOLOGY

\* the number n in decimal digits, as f"{i+1}" writes it
RECURSIVE Decimal(_)
Decimal(n) ==
    IF n < 10 THEN <<ToString(n)>>
    ELSE Decimal(n \div 10) \o <<ToString(n % 10)>>

\* lines 359-363: the header of the entry numbered number
SourceInfo(number, metadata) ==
    LET section_title == Get(metadata, "section_title", <<>>)
        timestamp == Get(metadata, "timestamp", <<>>)
    IN <<"S", "o", "u", "r", "c", "e", " ">> \o Decimal(number)
       \o (IF section_title # <<>> THEN <<" ", "-", " ">> \o section_title
           ELSE <<>>)
       \o (IF timestamp # <<>> THEN <<" ", "[">> \o timestamp \o <<"]">>
           ELSE <<>>)

\* an entry numbered from 0
ContextPart_zero_based(i, chunk) ==
    SourceInfo(i - 1, chunk.metadata) \o <<":", "\n">> \o chunk.content \o <<"\n">>

\* line 365: the entry of the chunk at position i, counted from 1
ContextPart(i, chunk) ==
    SourceInfo(i, chunk.metadata) \o <<":", "\n">> \o chunk.content \o <<"\n">>

\* "\n".join of the entries first..Len(chunks) (line 367)
RECURSIVE JoinParts(_, _)
JoinParts(chunks, first) ==
    IF first > Len(chunks) THEN <<>>
    ELSE IF first = Len(chunks) THEN ContextPart(first, chunks[first])
    ELSE ContextPart(first, chunks[first]) \o <<"\n">> \o JoinParts(chunks, first + 1)

\* _prepare_context (lines 349-367)
prepare_context(chunks) == JoinParts(chunks, 1)

\* the defaults of lines 378-380
UNKNOWN_SECTION ==
    <<"U", "n", "k", "n", "o", "w", "n", " ", "S", "e", "c", "t", "i", "o", "n">>

\* lines 369-384
process_sources(chunks) ==
    [i \in 1..Len(chunks) |->
        [content |-> chunks[i].content,
         relevance_score |-> chunks[i].relevance_score,
         section_title |-> Get(chunks[i].metadata, "section_title", UNKNOWN_SECTION),
         timestamp |-> Get(chunks[i].metadata, "timestamp", DEFAULT_TIMESTAMP),
         source_type |-> Get(chunks[i].metadata, "type", "unknown")]]

\* the least position from i on at which s has no character of set
SkipWhile(s, i, set) ==
    CHOOSE j \in i..(Len(s) + 1) :
        /\ j = Len(s) + 1 \/ s[j] \notin set
        /\ \A k \in i..(j - 1) : s[k] \in set

\* the least position from i on at which s has the character c, or 0
Find(s, i, c) ==
    IF \E k \in i..Len(s) : s[k] = c
    THEN CHOOSE k \in i..Len(s) : s[k] = c /\ \A l \in i..(k - 1) : s[l] # c
    ELSE 0

\* a value json.loads decodes: a string, a number or a list of values
PyStr(text) == [kind |-> "string", text |-> text, items |-> <<>>]
PyNumber(text) == [kind |-> "number", text |-> text, items |-> <<>>]
PyList(items) == [kind |-> "list", text |-> <<>>, items |-> items]

\* json.JSONDecodeError
JSONDecodeError == [ok |-> FALSE, value |-> [kind |-> "error"], next |-> 0]

Decoded(value, next) == [ok |-> TRUE, value |-> value, next |-> next]

JsonWhitespace == {" ", "\t", "\n", "\r"}

\* the decoder at the opening quote of a string without escapes
JsonString(t, i) ==
    LET j == Find(t, i + 1, "\"")
    IN IF j = 0 THEN JSONDecodeError
       ELSE Decoded(PyStr(SubSeq(t, i + 1, j - 1)), j + 1)

\* the decoder at the first digit of a number: 0 or a run of digits not
\* starting with 0, then a point and digits if both are there
JsonNumber(t, i) ==
    LET intEnd == IF t[i] = "0" THEN i + 1 ELSE SkipWhile(t, i, Digits)
        fracEnd == IF /\ intEnd + 1 <= Len(t)
                      /\ t[intEnd] = "."
                      /\ t[intEnd + 1] \in Digits
                   THEN SkipWhile(t, intEnd + 1, Digits)
                   ELSE intEnd
    IN Decoded(PyNumber(SubSeq(t, i, fracEnd - 1)), fracEnd)

RECURSIVE JsonValue(_, _), JsonElements(_, _, _)

\* the decoder at position i of t: strings, numbers without sign or
\* exponent, and lists of such values
JsonValue(t, i) ==
    IF i > Len(t) THEN JSONDecodeError
    ELSE IF t[i] = "\"" THEN JsonString(t, i)
    ELSE IF t[i] \in Digits THEN JsonNumber(t, i)
    ELSE IF t[i] = "["
         THEN LET j == SkipWhile(t, i + 1, JsonWhitespace)
              IN IF j <= Len(t) /\ t[j] = "]"
                 THEN Decoded(PyList(<<>>), j + 1)
                 ELSE JsonElements(t, j, <<>>)
    ELSE JSONDecodeError

\* the decoder inside a list, at the start of an element
JsonElements(t, i, items) ==
    LET v == JsonValue(t, i)
        j == SkipWhile(t, v.next, JsonWhitespace)
    IN IF ~v.ok \/ j > Len(t) THEN JSONDecodeError
       ELSE IF t[j] = "]" THEN Decoded(PyList(Append(items, v.value)), j + 1)
       ELSE IF t[j] = ","
            THEN JsonElements(t, SkipWhile(t, j + 1, JsonWhitespace),
                              Append(items, v.value))
       ELSE JSONDecodeError

\* json.loads (line 414): one value between optional whitespace, and
\* nothing else
json_loads(content) ==
    LET v == JsonValue(content, SkipWhile(content, 1, JsonWhitespace))
    IN IF ~v.ok THEN JSONDecodeError
       ELSE IF SkipWhile(content, v.next, JsonWhitespace) <= Len(content)
            THEN JSONDecodeError
       ELSE v

\* line 438 and line 441
MIN_QUESTION_LENGTH == 10
MAX_QUESTIONS == 3

\* re.sub(r'^\d+\.\s*', '', question) (line 436)
RemoveNumbering(question) ==
    LET j == SkipWhile(question, 1, Digits)
    IN IF j > 1 /\ j <= Len(question) /\ question[j] = "."
       THEN SubSeq(question, SkipWhile(question, j + 1, Whitespace), Len(question))
       ELSE question

\* re.sub(r'^[\-\*]\s*', '', question) (line 437)
RemoveBullet(question) ==
    IF question # <<>> /\ question[1] \in {"-", "*"}
    THEN SubSeq(question, SkipWhile(question, 2, Whitespace), Len(question))
    ELSE question

\* lines 435-437: the sentence up to its first '?', a '?', cleaned
CleanQuestion(sentence) ==
    LET k == Find(sentence, 1, "?")
        head == IF k = 0 THEN sentence ELSE SubSeq(sentence, 1, k - 1)
    IN RemoveBullet(RemoveNumbering(Append(head, "?")))

\* the test of line 433 and the test of line 438
IsKeptQuestion(sentence) ==
    /\ Find(sentence, 1, "?") # 0
    /\ Len(CleanQuestion(sentence)) > MIN_QUESTION_LENGTH

\* _extract_questions_from_text (lines 424-441): the pieces between runs
\* of '.', '!' and '?', stripped; those holding a '?' are cleaned, those
\* longer than 10 are kept, the first 3 are returned
extract_questions_from_text(text) ==
    LET sentences == ReSplit(text)
        stripped == [i \in 1..Len(sentences) |-> Strip(sentences[i])]
        kept == SelectSeq(stripped, IsKeptQuestion)
    IN Prefix([i \in 1..Len(kept) |-> CleanQuestion(kept[i])], MAX_QUESTIONS)

\* lines 402-422: what the provider's text decodes to when it is a JSON
\* list, [] when it is another JSON value, what the extractor finds in it
\* when it is not JSON, and [] when the call raises
generate_follow_up_questions(provider_ok, provider_text) ==
    IF ~provider_ok THEN <<>>
    ELSE LET content == Strip(provider_text)
             follow_ups == json_loads(content)
         IN IF ~follow_ups.ok
            THEN [i \in 1..Len(extract_questions_from_text(content)) |->
                     PyStr(extract_questions_from_text(content)[i])]
            ELSE IF follow_ups.value.kind = "list" THEN follow_ups.value.items
            ELSE <<>>

\* a call of collection.query that asks for max_results neighbours
QueryCall_k_results(query_embedding, max_results) ==
    [query_embeddings |-> <<query_embedding>>, n_results |-> max_results]

\* lines 249-253: the arguments of collection.query
QueryCall(query_embedding, max_results) ==
    [query_embeddings |-> <<query_embedding>>, n_results |-> max_results * 2]

\* no call of collection.query was made
NoCall == [query_embeddings |-> <<>>, n_results |-> 0]

\* lines 244-273: the outcome of _retrieve_relevant_chunks.  Every exception
\* of the try block (self.collection is None, the store's query raises) ends
\* in the except clause, which returns [].
retrieve_relevant_chunks(question, max_results, handle, query_embedding, entries, distance, search_ok) ==
    IF handle = None \/ ~search_ok THEN <<>>
    ELSE RetrievedFrom(question,
                       StoreQuery(entries, distance,
                                  QueryCall(query_embedding, max_results).n_results),
                       max_results)

\* lines 234-239: the dictionary answer_question returns; no statement of
\* answer_question raises once its helpers have swallowed their exceptions
answer_question(relevant_chunks, answer, follow_ups) ==
    [kind |-> "returned",
     answer |-> answer,
     sources |-> process_sources(relevant_chunks),
     follow_up_questions |-> follow_ups,
     confidence |-> calculate_confidence(relevant_chunks, answer)]

(***************************************************************************)
(* State.                                                                  *)
(***************************************************************************)
VARIABLES
    \* the chunking specification: one call of _create_chunks
    ckTranscript,   \* its argument transcript['segments']
    ckNotes,        \* its argument notes['sections']
    ckSize,         \* its argument chunk_size
    ckPc,           \* "call" before the call, "done" after it
    ckCandidates,   \* the list `chunks` before splitting (line 127)
    ckParts,        \* per candidate, the chunks it became (lines 129-134)
    ckFinal,        \* the returned final_chunks
    \* the ranking specification: the tail of one answer_question call
    rkQuestion,     \* the question
    rkK,            \* options['max_sources']
    rkResults,      \* what collection.query returned, nearest first
    rkPc,           \* "call", "retrieved", "done"
    rkRetrieved,    \* the list _retrieve_relevant_chunks returns
    rkAnswer,       \* the answer text of the synthesis provider
    rkConfidence,   \* the value of _calculate_confidence
    \* the lifecycle specifications: one RAGSystem and the persistent store
    collection,     \* self.collection: None or the name of a collection
    store,          \* the store: name of each live collection -> its entries
    clock,          \* datetime.now(), in whole seconds
    pc,             \* setup_vector_store: "idle", "create", "chunk", "store"
    buildInput,     \* the arguments of the running or last setup_vector_store
    buildChunks,    \* its local variable chunks
    batchStart,     \* the loop variable i of _store_chunks
    handleAtCall,   \* self.collection when setup_vector_store was called
    buildOf,        \* name of each collection ever created -> its build's arguments
    batchLog,       \* per batch of the running or last build, what happened
    lastCall,       \* how the last setup_vector_store / clear_collection ended
    setupReturn,    \* the dictionary the last setup_vector_store returned
    prevBuild,      \* the setup_vector_store call before the running or last one
    lastQuery,      \* what happened inside the last answer_question
    lastResult,     \* what the last answer_question handed to its caller
    lastStats,      \* what the last get_collection_stats returned
    \* the text specifications: one call of a text function of the query path
    fnArg,          \* its argument
    fnPc,           \* "idle", "call" before the call, "done" after it
    fnResult        \* what it returned

ckVars == <<ckTranscript, ckNotes, ckSize, ckPc, ckCandidates, ckParts, ckFinal>>

rkVars == <<rkQuestion, rkK, rkResults, rkPc, rkRetrieved, rkAnswer, rkConfidence>>

sysVars == <<collection, store, clock, pc, buildInput, buildChunks, batchStart,
             handleAtCall, buildOf, batchLog, lastCall, setupReturn, prevBuild>>

qVars == <<lastQuery, lastResult, lastStats>>

fnVars == <<fnArg, fnPc, fnResult>>

vars == <<ckVars, rkVars, sysVars, qVars, fnVars>>

(***************************************************************************)
(* The chunking specification: every bounded input, one call.              *)
(***************************************************************************)
\* the texts notes sections, key points and quotes are drawn from
NoteTexts == {<<>>, <<"a">>, <<"a", ".", "a">>, <<"a", "?", " ", "a">>}

SeqsUpTo(S, n) == UNION {[1..k -> S] : k \in 0..n}

Segments == [text : Texts(MaxLen) \cup {Missing}]

Sections == [content : NoteTexts,
             key_points : SeqsUpTo(NoteTexts, 1),
             quotes : SeqsUpTo(NoteTexts, 1)]

\* no setup_vector_store has returned, no answer_question has been called
NoReturn == [collection_name |-> None, total_chunks |-> 0, chunk_size |-> 0]
NoQuery == [embedding |-> "none", search |-> "none", synthesis |-> "none",
            retrieved |-> 0, question |-> <<>>, max_sources |-> 0,
            call |-> NoCall, candidates |-> <<>>]
NoResult == [kind |-> "none"]

\* no get_collection_stats has been called; the empty dictionary it returns
\* without collection or when count() raises (lines 467-468, 477-478)
NoStats == [kind |-> "none"]
EmptyStats == [kind |-> "empty"]

NoInput == [transcript |-> <<>>, notes |-> <<>>, chunk_size |-> 0]

\* the embedding provider raised for a batch of the build of the log
EmbeddingFailed(log) == \E k \in 1..Len(log) : log[k].embedding = "failed"

\* what is kept of a setup_vector_store call once the next one starts: its
\* arguments, whether its embedding provider raised, the dictionary it
\* returned (NoReturn when it raised)
BuildRecord(input, log, value) ==
    [input |-> input, embedding_failed |-> EmbeddingFailed(log), value |-> value]

NoBuild == BuildRecord(NoInput, <<>>, NoReturn)

\* a freshly constructed RAGSystem (lines 13-18) and an empty store
SysInit ==
    /\ collection = None
    /\ store = <<>>
    /\ clock = 0
    /\ pc = "idle"
    /\ buildInput = NoInput
    /\ buildChunks = <<>>
    /\ batchStart = 0
    /\ handleAtCall = None
    /\ buildOf = <<>>
    /\ batchLog = <<>>
    /\ lastCall = "none"
    /\ setupReturn = NoReturn
    /\ prevBuild = NoBuild
    /\ lastQuery = NoQuery
    /\ lastResult = NoResult
    /\ lastStats = NoStats

RankIdle ==
    /\ rkPc = "idle" /\ rkQuestion = <<>> /\ rkK = 0 /\ rkResults = <<>>
    /\ rkRetrieved = <<>> /\ rkAnswer = <<>> /\ rkConfidence = Zero

ChunkIdle ==
    /\ ckPc = "idle" /\ ckTranscript = <<>> /\ ckNotes = <<>> /\ ckSize = 0
    /\ ckCandidates = <<>> /\ ckParts = <<>> /\ ckFinal = <<>>

\* no text function of the query path has been called
TextIdle == fnPc = "idle" /\ fnArg = <<>> /\ fnResult = <<>>

ChunkInit ==
    /\ TextIdle
    /\ RankIdle
    /\ SysInit
    /\ ckTranscript \in SeqsUpTo(Segments, MaxSegments)
    /\ ckNotes \in SeqsUpTo(Sections, MaxSections)
    /\ ckSize \in 1..MaxChunkSize
    /\ ckPc = "call"
    /\ ckCandidates = <<>>
    /\ ckParts = <<>>
    /\ ckFinal = <<>>

CreateChunks ==
    /\ ckPc = "call"
    /\ ckCandidates' = Candidates(ckTranscript, ckNotes)
    /\ ckParts' = Parts(ckCandidates', ckSize)
    /\ ckFinal' = create_chunks(ckTranscript, ckNotes, ckSize)
    /\ ckPc' = "done"
    /\ UNCHANGED <<ckTranscript, ckNotes, ckSize>>
    /\ UNCHANGED <<rkVars, sysVars, qVars, fnVars>>

ChunkNext == CreateChunks

SpecChunk == ChunkInit /\ [][ChunkNext]_vars

(***************************************************************************)
(* The re-chunking specification: _create_chunks called twice on the same  *)
(* arguments, on inputs of several candidates that are split.              *)
(***************************************************************************)
RechunkSegments == [text : NoteTexts \cup {Missing}]

RechunkSections ==
    [content : {<<>>, <<"a", ".", "a">>},
     key_points : SeqsUpTo({<<"a", ".", "a">>}, 1),
     quotes : SeqsUpTo({<<"a">>, <<"a", "?", " ", "a">>}, 1)]

RechunkInit ==
    /\ TextIdle
    /\ RankIdle
    /\ SysInit
    /\ ckTranscript \in SeqsUpTo(RechunkSegments, MaxSegments)
    /\ ckNotes \in SeqsUpTo(RechunkSections, MaxSections)
    /\ ckSize \in 1..MaxChunkSize
    /\ ckPc = "call"
    /\ ckCandidates = <<>>
    /\ ckParts = <<>>
    /\ ckFinal = <<>>

\* a second call whose chunk_id goes on from the count of the first call
CreateChunksAgain_counter_kept ==
    /\ ckPc = "done"
    /\ ckCandidates' =
           LET fromTranscript == SegmentChunks(ckTranscript, Len(ckCandidates))
           IN fromTranscript \o
              NotesChunks(ckNotes, 1, Len(ckCandidates) + Len(fromTranscript))
    /\ ckParts' = Parts(ckCandidates', ckSize)
    /\ ckFinal' = Flatten(ckParts', 1, Len(ckParts'))
    /\ ckPc' = "again"
    /\ UNCHANGED <<ckTranscript, ckNotes, ckSize>>
    /\ UNCHANGED <<rkVars, sysVars, qVars, fnVars>>

\* a second call of _create_chunks on the arguments of the first; chunk_id
\* is a local variable set to 0 at line 51, and the method reads nothing of
\* the instance, the clock or the store
CreateChunksAgain ==
    /\ ckPc = "done"
    /\ ckCandidates' = Candidates(ckTranscript, ckNotes)
    /\ ckParts' = Parts(ckCandidates', ckSize)
    /\ ckFinal' = create_chunks(ckTranscript, ckNotes, ckSize)
    /\ ckPc' = "again"
    /\ UNCHANGED <<ckTranscript, ckNotes, ckSize>>
    /\ UNCHANGED <<rkVars, sysVars, qVars, fnVars>>

RechunkNext == CreateChunks \/ CreateChunksAgain

SpecRechunk == RechunkInit /\ [][RechunkNext]_vars

(***************************************************************************)
(* The ranking specification: every bounded answer of the store to one     *)
(* query, reranked, truncated and scored.                                  *)
(***************************************************************************)
SourceTypes == {"transcript_segment", "notes_section", "key_point", "quote"}

\* distances the store may report: chromadb's default space is the squared
\* L2 distance, which exceeds 1 for unrelated texts
Distances == {Zero, Rat(1, 2), Rat(2, 1)}

Questions == {<<"a", "?">>, <<"A", " ", "b">>, <<"?">>}

RankDocuments == {<<"a">>, <<"b">>}

QueryResults == [document : RankDocuments, type : SourceTypes, distance : Distances]

\* the store ranks its answer by distance, nearest first
NearestFirst(results) ==
    \A i \in 1..(Len(results) - 1) : RLeq(results[i].distance, results[i + 1].distance)

\* an answer text of n words
AnswerOfWords(n) == [i \in 1..(2 * n) |-> IF i % 2 = 1 THEN "w" ELSE " "]

AnswerWordCounts == {0, 50, 150}

RankInit ==
    /\ TextIdle
    /\ ChunkIdle
    /\ SysInit
    /\ rkQuestion \in Questions
    /\ rkK \in 1..MaxK
    /\ rkResults \in {r \in SeqsUpTo(QueryResults, MaxResults) :
                          NearestFirst(r) /\ Len(r) <= 2 * rkK}
    /\ rkPc = "call"
    /\ rkRetrieved = <<>>
    /\ rkAnswer = <<>>
    /\ rkConfidence = Zero

Retrieve ==
    /\ rkPc = "call"
    /\ rkRetrieved' = RetrievedFrom(rkQuestion, rkResults, rkK)
    /\ rkPc' = "retrieved"
    /\ UNCHANGED <<rkQuestion, rkK, rkResults, rkAnswer, rkConfidence>>
    /\ UNCHANGED <<ckVars, sysVars, qVars, fnVars>>

Confidence ==
    /\ rkPc = "retrieved"
    /\ \E n \in AnswerWordCounts :
        /\ rkAnswer' = AnswerOfWords(n)
        /\ rkConfidence' = calculate_confidence(rkRetrieved, rkAnswer')
    /\ rkPc' = "done"
    /\ UNCHANGED <<rkQuestion, rkK, rkResults, rkRetrieved>>
    /\ UNCHANGED <<ckVars, sysVars, qVars, fnVars>>

\* a second run that reranks the chunk dictionaries of the first run, whose
\* relevance_score the first run has overwritten
RetrieveAgain_scores_kept ==
    /\ rkPc = "retrieved"
    /\ rkRetrieved' =
           Prefix(rerank_chunks(rkQuestion,
                                rerank_chunks(rkQuestion,
                                              [i \in 1..Len(rkResults) |->
                                                   StructuredChunk(rkResults[i])])),
                  rkK)
    /\ rkPc' = "again"
    /\ UNCHANGED <<rkQuestion, rkK, rkResults, rkAnswer, rkConfidence>>
    /\ UNCHANGED <<ckVars, sysVars, qVars, fnVars>>

\* a second run of lines 255-269 on the same question and the same answer
\* of the store: the chunk dictionaries are built anew (lines 257-264), so
\* _rerank_chunks gets the same contents, types and similarities
RetrieveAgain ==
    /\ rkPc = "retrieved"
    /\ rkRetrieved' = RetrievedFrom(rkQuestion, rkResults, rkK)
    /\ rkPc' = "again"
    /\ UNCHANGED <<rkQuestion, rkK, rkResults, rkAnswer, rkConfidence>>
    /\ UNCHANGED <<ckVars, sysVars, qVars, fnVars>>

RankNext == Retrieve \/ Confidence \/ RetrieveAgain

SpecRank == RankInit /\ [][RankNext]_vars

(***************************************************************************)
(* The scenario specification: a key point and a transcript segment about  *)
(* the same subject at the same distance from the question, reranked.      *)
(***************************************************************************)
ScenarioQuestion ==
    <<"W", "h", "a", "t", " ", "i", "s", " ", "d", "i", "s", "c",
      "u", "s", "s", "e", "d", " ", "a", "b", "o", "u", "t", " ",
      "A", "I", "?">>

ScenarioX ==
    <<"W", "e", " ", "d", "i", "s", "c", "u", "s", "s", " ", "A",
      "I", " ", "a", "n", "d", " ", "m", "a", "c", "h", "i", "n",
      "e", " ", "l", "e", "a", "r", "n", "i", "n", "g", " ", "t",
      "o", "d", "a", "y">>

ScenarioY ==
    <<"A", "I", " ", "i", "s", " ", "t", "h", "e", " ", "k", "e",
      "y", " ", "p", "o", "i", "n", "t">>

\* the squared L2 distances of unit vectors lie between 0 and 4
ScenarioDistances == {Rat(k, 5) : k \in 0..20}

ScenarioResults(distance) ==
    LET x == [document |-> ScenarioX, type |-> "transcript_segment",
              distance |-> distance]
        y == [document |-> ScenarioY, type |-> "key_point", distance |-> distance]
    IN {<<x, y>>, <<y, x>>}

ScenarioInit ==
    /\ TextIdle
    /\ ChunkIdle
    /\ SysInit
    /\ rkQuestion = ScenarioQuestion
    /\ rkK \in 1..MaxK
    /\ \E distance \in ScenarioDistances : rkResults \in ScenarioResults(distance)
    /\ rkPc = "call"
    /\ rkRetrieved = <<>>
    /\ rkAnswer = <<>>
    /\ rkConfidence = Zero

SpecScenario == ScenarioInit /\ [][RankNext]_vars

(***************************************************************************)
(* The lifecycle: setup_vector_store step by step, clear_collection,       *)
(* answer_question.  setup_vector_store and clear_collection are calls of  *)
(* the one operator of the instance and do not overlap each other; a       *)
(* query may run between any two steps of a build.                         *)
(***************************************************************************)
\* m with key k set to v
Put(m, k, v) == [x \in DOMAIN m \cup {k} |-> IF x = k THEN v ELSE m[x]]

\* m without key k
Drop(m, k) == [x \in DOMAIN m \ {k} |-> m[x]]

\* the clock advances
Tick ==
    /\ clock < MaxClock
    /\ clock' = clock + 1
    /\ UNCHANGED <<collection, store, pc, buildInput, buildChunks, batchStart,
                   handleAtCall, buildOf, batchLog, lastCall, setupReturn>>
    /\ UNCHANGED <<prevBuild, ckVars, rkVars, qVars, fnVars>>

\* setup_vector_store is called (line 20)
SetupCall(input) ==
    /\ pc = "idle"
    /\ pc' = "create"
    /\ buildInput' = input
    /\ handleAtCall' = collection
    /\ buildChunks' = <<>>
    /\ batchStart' = 0
    /\ batchLog' = <<>>
    /\ lastCall' = "running"
    /\ setupReturn' = NoReturn
    /\ prevBuild' = BuildRecord(buildInput, batchLog, setupReturn)
    /\ UNCHANGED <<collection, store, clock, buildOf>>
    /\ UNCHANGED <<ckVars, rkVars, qVars, fnVars>>

\* a creation that reuses the name of a live collection and empties it
SetupCreate_get_or_create ==
    /\ pc = "create"
    /\ store' = Put(store, CollectionName(clock), <<>>)
    /\ collection' = CollectionName(clock)
    /\ buildOf' = Put(buildOf, CollectionName(clock), buildInput)
    /\ pc' = "chunk"
    /\ UNCHANGED <<clock, buildInput, buildChunks, batchStart, handleAtCall,
                   batchLog, lastCall, setupReturn>>
    /\ UNCHANGED <<prevBuild, ckVars, rkVars, qVars, fnVars>>

\* lines 29-33: create_collection succeeds and self.collection is assigned
SetupCreate ==
    /\ pc = "create"
    /\ CollectionName(clock) \notin DOMAIN store
    /\ store' = Put(store, CollectionName(clock), <<>>)
    /\ collection' = CollectionName(clock)
    /\ buildOf' = Put(buildOf, CollectionName(clock), buildInput)
    /\ pc' = "chunk"
    /\ UNCHANGED <<clock, buildInput, buildChunks, batchStart, handleAtCall,
                   batchLog, lastCall, setupReturn>>
    /\ UNCHANGED <<prevBuild, ckVars, rkVars, qVars, fnVars>>

\* lines 29-33: create_collection raises because the name is the name of a
\* live collection; the assignment of line 30 does not happen
SetupCreateRaises ==
    /\ pc = "create"
    /\ CollectionName(clock) \in DOMAIN store
    /\ pc' = "idle"
    /\ lastCall' = "setup_raised"
    /\ UNCHANGED <<collection, store, clock, buildInput, buildChunks, batchStart,
                   handleAtCall, buildOf, batchLog, setupReturn>>
    /\ UNCHANGED <<prevBuild, ckVars, rkVars, qVars, fnVars>>

\* line 36
SetupChunk ==
    /\ pc = "chunk"
    /\ ~create_chunks_raises(buildInput.transcript, buildInput.notes)
    /\ buildChunks' = create_chunks(buildInput.transcript, buildInput.notes,
                               buildInput.chunk_size)
    /\ batchStart' = 0
    /\ pc' = "store"
    /\ UNCHANGED <<collection, store, clock, buildInput, handleAtCall, buildOf,
                   batchLog, lastCall, setupReturn>>
    /\ UNCHANGED <<prevBuild, ckVars, rkVars, qVars, fnVars>>

\* line 36 raises on a malformed transcript or notes value
SetupChunkRaises ==
    /\ pc = "chunk"
    /\ create_chunks_raises(buildInput.transcript, buildInput.notes)
    /\ pc' = "idle"
    /\ lastCall' = "setup_raised"
    /\ UNCHANGED <<collection, store, clock, buildInput, buildChunks, batchStart,
                   handleAtCall, buildOf, batchLog, setupReturn>>
    /\ UNCHANGED <<prevBuild, ckVars, rkVars, qVars, fnVars>>

\* what the log keeps of one pass of the loop of _store_chunks
LogEntry(first, batch, provider_ok, stored, before, after) ==
    [first |-> first, size |-> Len(batch),
     embedding |-> IF provider_ok THEN "ok" ELSE "failed",
     add |-> IF stored THEN "stored" ELSE "raised",
     attempts |-> 1,
     count_before |-> before, count_after |-> after,
     call |-> AddCall(batch, generate_embeddings(
                  [j \in 1..Len(batch) |-> batch[j].content], provider_ok))]

\* one pass of the loop of lines 182-199 in which collection.add succeeds
StoreBatch ==
    /\ pc = "store"
    /\ batchStart < Len(buildChunks)
    /\ collection \in DOMAIN store
    /\ \E provider_raises \in BOOLEAN :
        LET provider_ok == ~provider_raises
            batch == Batch(buildChunks, batchStart)
            embeddings == generate_embeddings(
                              [j \in 1..Len(batch) |-> batch[j].content], provider_ok)
            added == store[collection] \o AddArguments(batch, embeddings)
        IN /\ store' = [store EXCEPT ![collection] = added]
           /\ batchLog' = Append(batchLog,
                                 LogEntry(batchStart, batch, provider_ok, TRUE,
                                          Len(store[collection]), Len(added)))
    /\ batchStart' = batchStart + BATCH_SIZE
    /\ UNCHANGED <<collection, clock, pc, buildInput, buildChunks, handleAtCall,
                   buildOf, lastCall, setupReturn>>
    /\ UNCHANGED <<prevBuild, ckVars, rkVars, qVars, fnVars>>

\* one pass of the loop in which collection.add raises (the store rejects or
\* loses the call): nothing of the batch is stored, the exception leaves
\* _store_chunks and setup_vector_store
StoreBatchRaises ==
    /\ pc = "store"
    /\ batchStart < Len(buildChunks)
    /\ \E provider_raises \in BOOLEAN :
        LET provider_ok == ~provider_raises
            batch == Batch(buildChunks, batchStart)
            count == IF collection \in DOMAIN store THEN Len(store[collection]) ELSE 0
        IN batchLog' = Append(batchLog,
                              LogEntry(batchStart, batch, provider_ok, FALSE,
                                       count, count))
    /\ pc' = "idle"
    /\ lastCall' = "setup_raised"
    /\ UNCHANGED <<collection, store, clock, buildInput, buildChunks, batchStart,
                   handleAtCall, buildOf, setupReturn>>
    /\ UNCHANGED <<prevBuild, ckVars, rkVars, qVars, fnVars>>

\* a return that reports the candidates of lines 50-125, counted before the
\* oversized ones are split
SetupReturn_counts_candidates ==
    /\ pc = "store"
    /\ batchStart >= Len(buildChunks)
    /\ pc' = "idle"
    /\ lastCall' = "setup_returned"
    /\ setupReturn' = [collection_name |-> collection,
                       total_chunks |-> Len(Candidates(buildInput.transcript,
                                                       buildInput.notes)),
                       chunk_size |-> buildInput.chunk_size]
    /\ UNCHANGED <<collection, store, clock, buildInput, buildChunks, batchStart,
                   handleAtCall, buildOf, batchLog>>
    /\ UNCHANGED <<prevBuild, ckVars, rkVars, qVars, fnVars>>

\* lines 41-45; collection_name is the name computed at line 29, which is
\* the name of the collection created then
SetupReturn ==
    /\ pc = "store"
    /\ batchStart >= Len(buildChunks)
    /\ pc' = "idle"
    /\ lastCall' = "setup_returned"
    /\ setupReturn' = [collection_name |-> collection,
                       total_chunks |-> Len(buildChunks),
                       chunk_size |-> buildInput.chunk_size]
    /\ UNCHANGED <<collection, store, clock, buildInput, buildChunks, batchStart,
                   handleAtCall, buildOf, batchLog>>
    /\ UNCHANGED <<prevBuild, ckVars, rkVars, qVars, fnVars>>

\* lines 483-488, delete_collection succeeding
ClearCollection ==
    /\ pc = "idle"
    /\ collection # None
    /\ collection \in DOMAIN store
    /\ store' = Drop(store, collection)
    /\ collection' = None
    /\ lastCall' = "cleared"
    /\ UNCHANGED <<clock, pc, buildInput, buildChunks, batchStart, handleAtCall,
                   buildOf, batchLog, setupReturn>>
    /\ UNCHANGED <<prevBuild, ckVars, rkVars, qVars, fnVars>>

\* the distances the store may report for a query vector: any, but a zero
\* query vector is at distance 0 from a stored zero vector
Geometry(query_embedding, entries) ==
    {d \in [1..Len(entries) -> Distances] :
        \A i \in 1..Len(entries) :
            (query_embedding.zero /\ entries[i].embedding.zero) => d[i] = Zero}

\* what the lifecycle specification draws for a query: the question, the
\* text of the synthesis provider and the text of the follow-up call
AskedQuestions == {<<"a", "?">>}
ProviderAnswers == {AnswerOfWords(50)}
ProviderFollowUps == {<<"[", "\"", "a", "?", "\"", "]">>}

\* one call of answer_question (lines 216-239), start to end, with
\* max_sources drawn from sources and, for each provider or store call,
\* whether it raises drawn from faults
Ask(sources, faults) ==
    /\ \E question \in AskedQuestions, max_sources \in sources,
          embedding_raises \in faults, search_raises \in faults,
          synthesis_raises \in faults, follow_up_raises \in faults,
          provider_text \in ProviderAnswers, follow_up_text \in ProviderFollowUps :
        LET embedding_ok == ~embedding_raises
            search_ok == ~search_raises
            synthesis_ok == ~synthesis_raises
            follow_up_ok == ~follow_up_raises
            query_embedding == generate_embeddings(<<question>>, embedding_ok)[1]
            \* the entries the store's query ranks, when it is reached and works
            entries == IF collection \in DOMAIN store /\ search_ok
                       THEN store[collection] ELSE <<>>
        IN \E distance \in Geometry(query_embedding, entries) :
            LET relevant_chunks ==
                    retrieve_relevant_chunks(question, max_sources, collection,
                                             query_embedding, entries, distance,
                                             search_ok)
                answer == generate_answer(synthesis_ok, provider_text)
                follow_ups == generate_follow_up_questions(follow_up_ok, follow_up_text)
            IN /\ lastResult' = answer_question(relevant_chunks, answer, follow_ups)
               /\ lastQuery' =
                    [embedding |-> IF embedding_ok THEN "ok" ELSE "failed",
                     search |-> IF collection = None THEN "no_collection"
                                ELSE IF search_ok THEN "ok" ELSE "failed",
                     synthesis |-> IF synthesis_ok THEN "ok" ELSE "failed",
                     retrieved |-> Len(relevant_chunks),
                     question |-> question,
                     max_sources |-> max_sources,
                     call |-> IF collection = None THEN NoCall
                              ELSE QueryCall(query_embedding, max_sources),
                     candidates |->
                        IF collection = None THEN <<>>
                        ELSE StructuredChunks(
                                 StoreQuery(entries, distance,
                                            QueryCall(query_embedding,
                                                      max_sources).n_results))]
    /\ UNCHANGED lastStats
    /\ UNCHANGED sysVars
    /\ UNCHANGED <<ckVars, rkVars, fnVars>>

\* a query that writes the score of the moment onto every stored entry
AnswerQuestion_scores_persisted ==
    /\ collection \in DOMAIN store
    /\ store' = [store EXCEPT ![collection] =
                    [j \in 1..Len(@) |->
                        [id |-> @[j].id, document |-> @[j].document,
                         type |-> @[j].type, metadata |-> @[j].metadata,
                         embedding |-> @[j].embedding,
                         relevance_score |-> One]]]
    /\ lastQuery' = [embedding |-> "ok", search |-> "ok", synthesis |-> "ok",
                     retrieved |-> 0, question |-> <<>>, max_sources |-> 0,
                     call |-> NoCall, candidates |-> <<>>]
    /\ lastResult' = answer_question(<<>>, <<>>, <<>>)
    /\ UNCHANGED <<collection, clock, pc, buildInput, buildChunks, batchStart,
                   handleAtCall, buildOf, batchLog, lastCall, setupReturn, prevBuild>>
    /\ UNCHANGED <<lastStats, ckVars, rkVars, fnVars>>

\* a query with any max_sources, every provider and the store free to fail
AnswerQuestion == Ask(1..MaxK, BOOLEAN)

\* get_collection_stats (lines 464-478): {} without collection or when
\* count() raises, else the count, the name and the model name
GetCollectionStats ==
    /\ \E count_raises \in BOOLEAN :
        lastStats' =
            IF collection = None \/ collection \notin DOMAIN store \/ count_raises
            THEN EmptyStats
            ELSE [kind |-> "stats",
                  total_chunks |-> Len(store[collection]),
                  collection_name |-> collection,
                  embedding_model |-> "sentence-transformers/all-MiniLM-L6-v2"]
    /\ UNCHANGED <<lastQuery, lastResult>>
    /\ UNCHANGED sysVars
    /\ UNCHANGED <<ckVars, rkVars, fnVars>>

\* a query between two steps of the lifecycle, providers and store working
AnswerQuestionMeanwhile == Ask({1}, {FALSE})

\* the build arguments the lifecycle specification draws: nothing to index,
\* a transcript segment and a key point, a segment whose text is None
Segment(text) == [text |-> text]

BuildInputs ==
    {[transcript |-> <<>>, notes |-> <<>>, chunk_size |-> DEFAULT_CHUNK_SIZE],
     [transcript |-> <<Segment(<<"a">>)>>,
      notes |-> <<[content |-> <<>>, key_points |-> <<<<"a">>>>, quotes |-> <<>>]>>,
      chunk_size |-> DEFAULT_CHUNK_SIZE],
     [transcript |-> <<Segment(NoneText)>>, notes |-> <<>>,
      chunk_size |-> DEFAULT_CHUNK_SIZE]}

Init == ChunkIdle /\ RankIdle /\ TextIdle /\ SysInit

Next ==
    \/ Tick
    \/ \E input \in BuildInputs : SetupCall(input)
    \/ SetupCreate
    \/ SetupCreateRaises
    \/ SetupChunk
    \/ SetupChunkRaises
    \/ StoreBatch
    \/ StoreBatchRaises
    \/ SetupReturn
    \/ ClearCollection
    \/ AnswerQuestionMeanwhile

Spec == Init /\ [][Next]_vars

(***************************************************************************)
(* The query specification: queries, with every fault, against each kind   *)
(* of instance the lifecycle leaves behind: a fresh one, and one whose     *)
(* setup_vector_store returned, the embedding provider having worked or    *)
(* not during the build.                                                   *)
(***************************************************************************)
WellFormedInputs ==
    {input \in BuildInputs : ~create_chunks_raises(input.transcript, input.notes)}

\* the state in which setup_vector_store, called on a fresh instance at
\* second 0 with a single batch of chunks, returns
Built(input, provider_ok) ==
    LET made == create_chunks(input.transcript, input.notes, input.chunk_size)
        batch == Batch(made, 0)
        entries == AddArguments(batch, generate_embeddings(
                       [j \in 1..Len(batch) |-> batch[j].content], provider_ok))
    IN /\ collection = CollectionName(0)
       /\ store = Put(<<>>, CollectionName(0), entries)
       /\ clock = 0
       /\ pc = "idle"
       /\ buildInput = input
       /\ buildChunks = made
       /\ batchStart = IF made = <<>> THEN 0 ELSE BATCH_SIZE
       /\ handleAtCall = None
       /\ buildOf = Put(<<>>, CollectionName(0), input)
       /\ batchLog = IF made = <<>> THEN <<>>
                     ELSE <<LogEntry(0, batch, provider_ok, TRUE, 0, Len(entries))>>
       /\ lastCall = "setup_returned"
       /\ setupReturn = [collection_name |-> CollectionName(0),
                         total_chunks |-> Len(made),
                         chunk_size |-> input.chunk_size]
       /\ prevBuild = NoBuild
       /\ lastQuery = NoQuery
       /\ lastResult = NoResult
       /\ lastStats = NoStats

QueryInit ==
    /\ TextIdle
    /\ ChunkIdle
    /\ RankIdle
    /\ \/ SysInit
       \/ \E input \in WellFormedInputs, provider_ok \in BOOLEAN :
              Built(input, provider_ok)

QueryNext == AnswerQuestion \/ GetCollectionStats \/ ClearCollection

SpecQuery == QueryInit /\ [][QueryNext]_vars

(***************************************************************************)
(* The indexing specification: builds of several batches, on one instance  *)
(* within one second of the clock; a rebuild follows a clear_collection.   *)
(***************************************************************************)
\* the numbers of chunks the builds index: whole batches, and whole batches
\* followed by a batch of 3
IndexSizes == {b * BATCH_SIZE + r : b \in 0..MaxFullBatches, r \in {0, 3}}

IndexInputs ==
    {[transcript |-> [i \in 1..n |-> Segment(IF i % 2 = 1 THEN <<"a">> ELSE <<"b">>)],
      notes |-> <<>>,
      chunk_size |-> DEFAULT_CHUNK_SIZE] : n \in IndexSizes}

IndexNext ==
    \/ \E input \in IndexInputs : SetupCall(input)
    \/ SetupCreate
    \/ SetupCreateRaises
    \/ SetupChunk
    \/ StoreBatch
    \/ StoreBatchRaises
    \/ SetupReturn
    \/ ClearCollection

SpecIndex == Init /\ [][IndexNext]_vars

(***************************************************************************)
(* Claims about the ChunkBuilder, checked under SpecChunk.                 *)
(***************************************************************************)
\* a chunk that consists of one sentence holds no sentence terminator: the
\* sentences of the splitter are the pieces between terminators
IsSingleSentence(content) == \A i \in 1..Len(content) : content[i] \notin Terminators

NoWhitespace(s) == SelectSeq(s, LAMBDA c : c \notin Whitespace)

RECURSIVE ConcatContents(_, _)
ConcatContents(parts, i) ==
    IF i > Len(parts) THEN <<>>
    ELSE parts[i].content \o ConcatContents(parts, i + 1)

\* C1: every chunk returned by _create_chunks has len(content) <= chunk_size,
\* unless it is one single sentence that is itself longer than chunk_size.
C1_ChunkWithinBound ==
    ckPc = "done" =>
        \A i \in 1..Len(ckFinal) :
            \/ Len(ckFinal[i].content) <= ckSize
            \/ IsSingleSentence(ckFinal[i].content)

\* C2: for every candidate that is split, the contents of its sub-chunks,
\* concatenated in order, are the candidate's text modulo whitespace.
C2_NoDataLoss ==
    ckPc = "done" =>
        \A i \in 1..Len(ckCandidates) :
            Len(ckCandidates[i].content) > ckSize =>
                NoWhitespace(ConcatContents(ckParts[i], 1))
                    = NoWhitespace(ckCandidates[i].content)

(***************************************************************************)
(* Claims about the ConfidenceEstimator, checked under SpecRank.           *)
(***************************************************************************)
\* C3: the confidence lies in [0, 1] for every list of retrieved chunks and
\* every answer, and is exactly 0 when the list is empty.
C3_ConfidenceInUnitInterval ==
    rkPc = "done" =>
        /\ RLeq(Zero, rkConfidence)
        /\ RLeq(rkConfidence, One)
        /\ (rkRetrieved = <<>> => rkConfidence = Zero)

(***************************************************************************)
(* Claims about answer_question, checked under SpecQuery.                  *)
(***************************************************************************)
Asked == lastQuery # NoQuery

\* a provider or the store raised during the last query
QueryFailed ==
    \/ lastQuery.embedding = "failed"
    \/ lastQuery.search = "failed"
    \/ lastQuery.synthesis = "failed"

\* C4: when the embedding provider, the vector search or the synthesis call
\* fails during answer_question, the caller gets an explicit failed operation
\* (and so never a normal result with an answer text and a confidence above 0).
C4_FailureIsSurfaced ==
    (Asked /\ QueryFailed) => lastResult.kind = "raised"

\* a failed query that returned an answer text with a confidence above 0
C4_ConfidentAnswerAfterFailure ==
    /\ Asked /\ QueryFailed
    /\ lastResult.kind = "returned"
    /\ lastResult.answer # <<>>
    /\ RLess(Zero, lastResult.confidence)

\* C5: answer_question on an instance whose collection was never built or was
\* cleared fails with NotFoundError and returns no result.
C5_MissingCollectionIsNotFound ==
    (Asked /\ lastQuery.search = "no_collection") =>
        lastResult = [kind |-> "raised", error |-> "NotFoundError"]

\* the retrieval of a query worked and found no chunk / failed outright
RetrievedNothing(query) ==
    query.embedding = "ok" /\ query.search = "ok" /\ query.retrieved = 0
RetrievalFailed(query) == query.search \in {"failed", "no_collection"}

\* C6: the result of a query that retrieved zero chunks and the result of a
\* query whose retrieval failed outright are never the same value.
C6_ZeroDistinctFromFailed ==
    [][(/\ Asked /\ lastQuery' # NoQuery
        /\ RetrievedNothing(lastQuery) /\ RetrievalFailed(lastQuery'))
       => lastResult' # lastResult]_vars

(***************************************************************************)
(* Claims about the lifecycle, checked under Spec.                         *)
(***************************************************************************)
Ids(seq) == [i \in 1..Len(seq) |-> seq[i].id]

\* the collection holds exactly the chunks of the build that created it
FullyIndexed(name) ==
    /\ name \in DOMAIN store
    /\ name \in DOMAIN buildOf
    /\ ~create_chunks_raises(buildOf[name].transcript, buildOf[name].notes)
    /\ Ids(store[name]) = Ids(create_chunks(buildOf[name].transcript,
                                            buildOf[name].notes,
                                            buildOf[name].chunk_size))

\* C7: after a rebuild that failed, on an instance that held a fully built
\* collection with chunks to answer from, the handle still refers to that
\* collection.
C7_FailedRebuildKeepsPrevious ==
    (/\ pc = "idle" /\ lastCall = "setup_raised"
     /\ handleAtCall # None /\ FullyIndexed(handleAtCall)
     /\ store[handleAtCall] # <<>>)
    => collection = handleAtCall

\* C8: in every state in which a query can run, the current collection handle
\* refers to a collection that contains all chunks of its build.
C8_CurrentCollectionComplete ==
    (collection # None /\ ENABLED AnswerQuestionMeanwhile) => FullyIndexed(collection)

(***************************************************************************)
(* Claims about _store_chunks, checked under SpecIndex.                    *)
(***************************************************************************)
\* the build of the log is over
BuildEnded == pc = "idle" /\ lastCall \in {"setup_returned", "setup_raised"}

\* the entries the stored batch b put into the current collection
EntriesOf(b) == SubSeq(store[collection], b.count_before + 1, b.count_before + b.size)

\* the vector of an entry belongs to the entry's own chunk: its embedding, or
\* the zero vector substituted for it
OwnVector(entry) == entry.embedding \in {Encode(entry.document), ZeroVector}

StoredWhole(b) ==
    /\ b.add = "stored"
    /\ collection \in DOMAIN store
    /\ Ids(EntriesOf(b)) = Ids(Batch(buildChunks, b.first))
    /\ \A j \in 1..b.size : OwnVector(EntriesOf(b)[j])

\* C9: every batch is stored whole with matching vectors, or is reported as
\* failed and retried; no build ends with a failed batch that was not
\* retried, and no id is paired with the vector of another chunk.
C9_BatchStoredOrRetried ==
    BuildEnded =>
        /\ \A k \in 1..Len(batchLog) :
               StoredWhole(batchLog[k]) \/ batchLog[k].attempts > 1
        /\ \A name \in DOMAIN store :
               \A j \in 1..Len(store[name]) : OwnVector(store[name][j])

SameBuildOneEmbeddingFailure ==
    /\ pc = "idle"
    /\ setupReturn # NoReturn
    /\ prevBuild.value # NoReturn
    /\ prevBuild.input = buildInput
    /\ prevBuild.embedding_failed # EmbeddingFailed(batchLog)

\* C11: a build in which the embedding provider raised for a batch returns a
\* value that differs from the value returned by a build on the same
\* arguments in which it did not.
C11_EmbeddingFailureIsReported ==
    SameBuildOneEmbeddingFailure => setupReturn # prevBuild.value

\* C12: the name a build derives at line 29 is the name of no collection an
\* earlier build created, live or deleted since; in particular no build
\* calls create_collection with the name of a live collection.
C12_CollectionNamesUnique ==
    pc = "create" =>
        /\ CollectionName(clock) \notin DOMAIN store
        /\ CollectionName(clock) \notin DOMAIN buildOf

(***************************************************************************)
(* More claims about _create_chunks, checked under SpecChunk.              *)
(***************************************************************************)
\* C13: no chunk returned by _create_chunks has empty content.
C13_NoEmptyChunk ==
    ckPc = "done" => \A i \in 1..Len(ckFinal) : ckFinal[i].content # <<>>

(***************************************************************************)
(* Claims about chunk ids, checked under SpecRechunk.                      *)
(***************************************************************************)
\* C14: no two chunks of the list _create_chunks returns have the same id,
\* chunks kept whole and sub-chunks of split chunks alike.
C14_ChunkIdsUnique ==
    ckPc \in {"done", "again"} =>
        \A i, j \in 1..Len(ckFinal) : ckFinal[i].id = ckFinal[j].id => i = j

\* two candidates were split into several sub-chunks each and another
\* candidate was kept whole
C14_Witness ==
    /\ ckPc = "done"
    /\ \E i, j, k \in 1..Len(ckParts) :
           /\ i # j
           /\ Len(ckParts[i]) >= 2 /\ Len(ckParts[j]) >= 2
           /\ ckParts[k] = <<ckCandidates[k]>>

C17_KeyPointRanksFirst ==
    (rkQuestion = ScenarioQuestion /\ rkPc = "retrieved") =>
        rkRetrieved[1].content = ScenarioY

\* the candidates of the query of the ranking specification, as built by
\* lines 257-264, and what _rerank_chunks returns for them
RankCandidates == [i \in 1..Len(rkResults) |-> StructuredChunk(rkResults[i])]

Reranked == rerank_chunks(rkQuestion, RankCandidates)

\* output is input rearranged by a permutation that puts scores in
\* non-increasing order and keeps the input order of equal scores
IsStableDescendingOrderOf(output, input) ==
    /\ Len(output) = Len(input)
    /\ \E p \in [1..Len(input) -> 1..Len(input)] :
           /\ \A i, j \in 1..Len(input) : p[i] = p[j] => i = j
           /\ \A i \in 1..Len(input) : output[i] = input[p[i]]
           /\ \A i, j \in 1..Len(input) :
                  i < j =>
                      /\ RLeq(output[j].relevance_score, output[i].relevance_score)
                      /\ output[i].relevance_score = output[j].relevance_score
                             => p[i] < p[j]

\* C18: _rerank_chunks returns its candidates, each with its final score, in
\* non-increasing order of score, equal scores in the order of the vector
\* search; _retrieve_relevant_chunks returns the first min(k, n) of them.
C18_StableDescendingThenTruncated ==
    rkPc = "retrieved" =>
        /\ IsStableDescendingOrderOf(
               Reranked,
               [i \in 1..Len(RankCandidates) |-> Rescored(rkQuestion, RankCandidates[i])])
        /\ rkRetrieved = SubSeq(Reranked, 1, Min(rkK, Len(RankCandidates)))

\* two different candidates got the same score, and the list was cut to one
C18_Witness ==
    /\ rkPc = "retrieved"
    /\ rkK = 1
    /\ Len(Reranked) = 2
    /\ Reranked[1].relevance_score = Reranked[2].relevance_score
    /\ Reranked[1].content # Reranked[2].content
    /\ rkRetrieved = <<Reranked[1]>>

\* the score of a candidate as the documentation of the reranker gives it
SpecifiedScore(question, chunk) ==
    LET query_tokens == Keywords(question)
        chunk_tokens == Keywords(chunk.content)
        keywordOverlap ==
            IF query_tokens = {} THEN Zero
            ELSE Rat(Cardinality({t \in query_tokens : t \in chunk_tokens}),
                     Cardinality(query_tokens))
        boost == CASE chunk.type = "key_point" -> Rat(12, 10)
                   [] chunk.type = "quote" -> Rat(11, 10)
                   [] OTHER -> One
        similarity == RSub(One, chunk.distance)
    IN RMul(RAdd(RMul(similarity, Rat(7, 10)), RMul(keywordOverlap, Rat(3, 10))),
            boost)

\* C19: the score _rerank_chunks assigns to a candidate is
\* (similarity * 0.7 + keywordOverlap * 0.3) * boost.
C19_ScoreFormula ==
    rkPc = "retrieved" =>
        \A i \in 1..Len(Reranked) :
            Reranked[i].relevance_score = SpecifiedScore(rkQuestion, Reranked[i])

\* a quote at distance 1/2 holding one of the two words of the question,
\* in another case of letters: (0.5 * 0.7 + 0.5 * 0.3) * 1.1
C19_Witness ==
    /\ rkPc = "retrieved"
    /\ rkQuestion = <<"A", " ", "b">>
    /\ \E i \in 1..Len(rkRetrieved) :
           /\ rkRetrieved[i].type = "quote"
           /\ rkRetrieved[i].content = <<"a">>
           /\ rkRetrieved[i].distance = Rat(1, 2)
           /\ rkRetrieved[i].relevance_score = Rat(11, 20)

(***************************************************************************)
(* Claims about what queries leave alone, checked under SpecQuery.         *)
(***************************************************************************)
\* a step of answer_question or get_collection_stats: the steps that write
\* what the last query or the last statistics call returned
QueryStep == qVars' # qVars

\* C20: no answer_question and no get_collection_stats call changes the
\* store: no id, content, metadata or vector of a collection is added,
\* removed or changed, and the handle of the instance stays what it was.
C20_BuiltCollectionReadOnly ==
    [][QueryStep => (store' = store /\ collection' = collection)]_vars

\* a query retrieved chunks of a built collection, a statistics call
\* counted them, and the collection still holds what its build stored
C20_Witness ==
    /\ Asked
    /\ lastQuery.retrieved > 0
    /\ lastStats # NoStats /\ lastStats # EmptyStats
    /\ lastStats.total_chunks > 0
    /\ collection # None
    /\ FullyIndexed(collection)
    /\ \A j \in 1..Len(store[collection]) :
           DOMAIN store[collection][j] =
               {"id", "document", "type", "metadata", "embedding"}

(***************************************************************************)
(* The collections specification: builds of one transcript segment,        *)
(* rebuilds in the same and in a later second, clear_collection, and       *)
(* queries and get_collection_stats between any two steps.                 *)
(***************************************************************************)
CollectionInputs ==
    {[transcript |-> <<Segment(<<"a">>)>>, notes |-> <<>>,
      chunk_size |-> DEFAULT_CHUNK_SIZE]}

CollectionsNext ==
    \/ Tick
    \/ \E input \in CollectionInputs : SetupCall(input)
    \/ SetupCreate
    \/ SetupCreateRaises
    \/ SetupChunk
    \/ StoreBatch
    \/ StoreBatchRaises
    \/ SetupReturn
    \/ ClearCollection
    \/ AnswerQuestionMeanwhile
    \/ GetCollectionStats

SpecCollections == Init /\ [][CollectionsNext]_vars

\* s is t with entries appended
IsExtensionOf(s, t) == Len(s) >= Len(t) /\ \A i \in 1..Len(t) : s[i] = t[i]

BatchesHolding(i) ==
    {k \in 1..Len(batchLog) :
        batchLog[k].first < i /\ i <= batchLog[k].first + batchLog[k].size}

\* C22: _store_chunks takes the chunk list in consecutive batches of at
\* most 100 chunks, in list order, each chunk in exactly one batch; in every
\* call of collection.add the lists of ids, contents, metadatas and vectors
\* have equal length, and the vector at a position is what
\* _generate_embeddings made of the content at that position, which is the
\* content of the chunk whose id is at that position.
C22_BatchesAligned ==
    /\ \A k \in 1..Len(batchLog) :
        LET b == batchLog[k] IN
        /\ b.first = (k - 1) * BATCH_SIZE
        /\ b.size = Min(BATCH_SIZE, Len(buildChunks) - b.first)
        /\ b.size >= 1
        /\ Len(b.call.ids) = b.size
        /\ Len(b.call.documents) = b.size
        /\ Len(b.call.metadatas) = b.size
        /\ Len(b.call.embeddings) = b.size
        /\ \A j \in 1..b.size :
            /\ b.call.ids[j] = buildChunks[b.first + j].id
            /\ b.call.documents[j] = buildChunks[b.first + j].content
            /\ b.call.metadatas[j] = buildChunks[b.first + j].metadata
            /\ b.call.embeddings[j] =
                   generate_embeddings(<<b.call.documents[j]>>,
                                       b.embedding = "ok")[1]
    /\ \A i \in 1..Len(buildChunks) :
        /\ Cardinality(BatchesHolding(i)) <= 1
        /\ lastCall = "setup_returned" => Cardinality(BatchesHolding(i)) = 1

\* a build of two full batches and a batch of 3 returned, the provider
\* working, neighbouring chunks of each batch having different contents
C22_Witness ==
    /\ lastCall = "setup_returned"
    /\ Len(batchLog) = 3
    /\ batchLog[1].size = BATCH_SIZE
    /\ batchLog[3].size = 3
    /\ \A k \in 1..3 :
        /\ batchLog[k].embedding = "ok"
        /\ batchLog[k].add = "stored"
        /\ batchLog[k].call.documents[1] # batchLog[k].call.documents[2]

(***************************************************************************)
(* The follow-up specification: one call of _generate_follow_up_questions  *)
(* or of _extract_questions_from_text on a text of the provider.           *)
(***************************************************************************)
MaxPieces == 3

\* what the texts of the provider are made of: the brackets, comma and
\* quoted string of a JSON list, a question of 13 characters, a question
\* of 4, a numbering, a bullet and a number
FollowUpPieces ==
    {<<"[">>,
     <<"]">>,
     <<",", " ">>,
     <<"\"", "W", "h", "y", " ", "i", "s", " ", "i", "t", " ", "s",
       "o", "?", "\"">>,
     <<"W", "h", "y", " ", "i", "s", " ", "i", "t", " ", "s", "o",
       "?", " ">>,
     <<"W", "h", "y", "?", " ">>,
     <<"1", ".", " ">>,
     <<"-", " ">>,
     <<"1", "2">>}

RECURSIVE Concat(_)
Concat(pieces) ==
    IF pieces = <<>> THEN <<>> ELSE Head(pieces) \o Concat(Tail(pieces))

FollowUpTexts == {Concat(pieces) : pieces \in SeqsUpTo(FollowUpPieces, MaxPieces)}

FollowUpInit ==
    /\ ChunkIdle
    /\ RankIdle
    /\ SysInit
    /\ fnPc = "call"
    /\ fnArg \in FollowUpTexts
    /\ fnResult = <<>>

\* _generate_follow_up_questions, the provider returning the text fnArg
GenerateFollowUps ==
    /\ fnPc = "call"
    /\ fnPc' = "generated"
    /\ fnResult' = generate_follow_up_questions(TRUE, fnArg)
    /\ UNCHANGED <<fnArg, ckVars, rkVars, sysVars, qVars>>

\* _generate_follow_up_questions, the provider raising
GenerateFollowUpsRaises ==
    /\ fnPc = "call"
    /\ fnPc' = "raised"
    /\ fnResult' = generate_follow_up_questions(FALSE, fnArg)
    /\ UNCHANGED <<fnArg, ckVars, rkVars, sysVars, qVars>>

\* _extract_questions_from_text on the text fnArg
ExtractQuestions ==
    /\ fnPc = "call"
    /\ fnPc' = "extracted"
    /\ fnResult' = extract_questions_from_text(fnArg)
    /\ UNCHANGED <<fnArg, ckVars, rkVars, sysVars, qVars>>

FollowUpNext == GenerateFollowUps \/ GenerateFollowUpsRaises \/ ExtractQuestions

SpecFollowUp == FollowUpInit /\ [][FollowUpNext]_vars

\* what _generate_follow_up_questions hands to its caller for the texts
\* that are valid JSON
ValidJsonResults ==
    {generate_follow_up_questions(TRUE, text) :
        text \in {t \in FollowUpTexts : json_loads(Strip(t)).ok}}

\* C23: when the provider's text is not valid JSON the fallback extractor
\* runs on it and what the caller gets is tagged as best-effort: it is the
\* extractor's result, and it is a value that no valid JSON text yields.
C23_RecoveredIsTagged ==
    (fnPc = "generated" /\ ~json_loads(Strip(fnArg)).ok) =>
        /\ fnResult = [i \in 1..Len(extract_questions_from_text(Strip(fnArg))) |->
                          PyStr(extract_questions_from_text(Strip(fnArg))[i])]
        /\ fnResult \notin ValidJsonResults

\* the sentences of a text that end with '?': from the terminator before
\* to the '?', stripped, a leading bullet removed
QuestionSentences(text) ==
    {LET before == {j \in 1..(k - 1) : text[j] \in Terminators}
         start == IF before = {} THEN 1
                  ELSE 1 + CHOOSE j \in before : \A l \in before : l <= j
     IN Append(RemoveBullet(Strip(SubSeq(text, start, k - 1))), "?") :
        k \in {k \in 2..Len(text) : text[k] = "?" /\ text[k - 1] \notin Terminators}}

\* C29: _extract_questions_from_text returns at most 3 entries, and every
\* sentence of the text that ends with '?' and is longer than 10
\* characters is among them, its numbering or bullet removed.
C29_QuestionsExtracted ==
    fnPc = "extracted" =>
        /\ Len(fnResult) <= MAX_QUESTIONS
        /\ \A question \in QuestionSentences(fnArg) :
               Len(question) > MIN_QUESTION_LENGTH =>
                   \E i \in 1..Len(fnResult) : fnResult[i] = question

(***************************************************************************)
(* Claims about _retrieve_relevant_chunks, checked under SpecQuery.        *)
(***************************************************************************)
\* C24: for max_sources = k, _retrieve_relevant_chunks embeds the question
\* and asks the current collection for exactly 2k nearest neighbours with
\* that vector; every candidate the store returns gets the similarity
\* 1 - distance before reranking; and the returned list has at most k
\* entries.
C24_RetrievalRequest ==
    Asked =>
        /\ lastQuery.search # "no_collection" =>
            /\ lastQuery.call.n_results = 2 * lastQuery.max_sources
            /\ lastQuery.call.query_embeddings =
                   <<IF lastQuery.embedding = "ok" THEN Encode(lastQuery.question)
                     ELSE ZeroVector>>
            /\ Len(lastQuery.candidates) <= 2 * lastQuery.max_sources
            /\ \A i \in 1..Len(lastQuery.candidates) :
                   lastQuery.candidates[i].relevance_score =
                       RSub(One, lastQuery.candidates[i].distance)
        /\ lastQuery.retrieved <= lastQuery.max_sources
        /\ Len(lastResult.sources) <= lastQuery.max_sources

\* a query with max_sources = 1 for which the store returned 2 candidates,
\* not both at the same distance, and 1 chunk was returned
C24_Witness ==
    /\ Asked
    /\ lastQuery.search = "ok"
    /\ lastQuery.max_sources = 1
    /\ lastQuery.call.n_results = 2
    /\ Len(lastQuery.candidates) = 2
    /\ lastQuery.candidates[1].distance # lastQuery.candidates[2].distance
    /\ lastQuery.retrieved = 1

(***************************************************************************)
(* The chunking scenarios: _create_chunks on transcripts of the two        *)
(* segments of Scenario A and on a notes section of Scenario B, a content  *)
(* of sentences of 48 characters, 50 with the ". " after each.             *)
(***************************************************************************)
MaxScenarioSegments == 2

ScenarioHello ==
    <<"H", "e", "l", "l", "o", " ", "w", "o", "r", "l", "d", ",",
      " ", "t", "h", "i", "s", " ", "i", "s", " ", "a", " ", "t",
      "e", "s", "t", ".">>

ScenarioDiscuss ==
    <<"W", "e", " ", "d", "i", "s", "c", "u", "s", "s", " ", "A",
      "I", " ", "a", "n", "d", " ", "m", "a", "c", "h", "i", "n",
      "e", " ", "l", "e", "a", "r", "n", "i", "n", "g", " ", "t",
      "o", "d", "a", "y", ".">>

ScenarioSentence ==
    <<"T", "h", "i", "s", " ", "s", "h", "o", "r", "t", " ", "s",
      "e", "n", "t", "e", "n", "c", "e", " ", "h", "a", "s", " ",
      "s", "o", "m", "e", " ", "m", "o", "r", "e", " ", "w", "o",
      "r", "d", "s", " ", "i", "n", " ", "t", "o", "t", "a", "l">>

\* n sentences, each followed by ". "
ScenarioContent(n) ==
    LET unit == ScenarioSentence \o <<".", " ">>
    IN [i \in 1..(n * Len(unit)) |-> unit[((i - 1) % Len(unit)) + 1]]

\* the numbers of sentences: 1000 characters, 1050, the 1500 of Scenario B,
\* and 2050
ScenarioSentenceCounts == {20, 21, 30, 41}

ScenarioTitle == <<"I", "n", "t", "r", "o">>
ScenarioTimestamp == <<"0", "1", ":", "3", "0">>

ScenarioSegments ==
    {[text |-> ScenarioHello],
     [text |-> ScenarioDiscuss, start |-> ScenarioTimestamp],
     [text |-> <<>>]}

\* a section with the keys title and timestamp, and one without them
ScenarioSections ==
    {[content |-> ScenarioContent(n), key_points |-> <<>>, quotes |-> <<>>,
      title |-> ScenarioTitle, timestamp |-> ScenarioTimestamp] :
        n \in ScenarioSentenceCounts}
    \cup
    {[content |-> ScenarioContent(n), key_points |-> <<>>, quotes |-> <<>>] :
        n \in ScenarioSentenceCounts}

\* the chunk size of the scenarios and half of it; for transcripts alone
\* also the length of the shorter segment, and one less
ScenarioSizes == {DEFAULT_CHUNK_SIZE, DEFAULT_CHUNK_SIZE \div 2}

ScenarioSegmentSizes == {Len(ScenarioHello), Len(ScenarioHello) - 1}

ChunkScenarioInit ==
    /\ TextIdle
    /\ RankIdle
    /\ SysInit
    /\ ckTranscript \in SeqsUpTo(ScenarioSegments, MaxScenarioSegments)
    /\ ckNotes \in SeqsUpTo(ScenarioSections, 1)
    /\ ckSize \in ScenarioSizes \cup ScenarioSegmentSizes
    /\ ckNotes # <<>> => ckSize \in ScenarioSizes
    /\ ckPc = "call"
    /\ ckCandidates = <<>>
    /\ ckParts = <<>>
    /\ ckFinal = <<>>

SpecChunkScenario == ChunkScenarioInit /\ [][ChunkNext]_vars

\* every segment has a text that is not empty and not longer than the
\* chunk size
SegmentsFit ==
    \A i \in 1..Len(ckTranscript) :
        /\ ckTranscript[i].text # Missing
        /\ ckTranscript[i].text # <<>>
        /\ Len(ckTranscript[i].text) <= ckSize

\* C25: for segments whose text is non-empty and not longer than the chunk
\* size, _create_chunks returns exactly one chunk per segment, in segment
\* order, of type transcript_segment and with the segment's text as
\* content; for the two segments of Scenario A and chunk size 1000 it
\* returns exactly 2 chunks, both transcript_segment.
C25_OneChunkPerSegment ==
    (ckPc = "done" /\ SegmentsFit) =>
        /\ Len(ckFinal) >= Len(ckTranscript)
        /\ \A i \in 1..Len(ckFinal) :
               IF i <= Len(ckTranscript)
               THEN /\ ckFinal[i].type = "transcript_segment"
                    /\ ckFinal[i].content = ckTranscript[i].text
               ELSE ckFinal[i].type # "transcript_segment"
        /\ ckNotes = <<>> => Len(ckFinal) = Len(ckTranscript)
        /\ (/\ ckTranscript = <<[text |-> ScenarioHello],
                                 [text |-> ScenarioDiscuss,
                                  start |-> ScenarioTimestamp]>>
            /\ ckNotes = <<>>
            /\ ckSize = DEFAULT_CHUNK_SIZE) =>
                /\ Len(ckFinal) = 2
                /\ ckFinal[1].type = "transcript_segment"
                /\ ckFinal[2].type = "transcript_segment"

\* Scenario A has been chunked
C25_Witness ==
    /\ ckPc = "done"
    /\ ckSize = DEFAULT_CHUNK_SIZE
    /\ ckNotes = <<>>
    /\ Len(ckTranscript) = 2
    /\ ckTranscript[1].text = ScenarioHello
    /\ ckTranscript[2].text = ScenarioDiscuss
    /\ Len(ckFinal) = 2

\* the sentences of a text in text order: its pieces between terminators,
\* stripped, the empty ones left out
IsSentence(piece) == piece # <<>>

SentencesOf(text) ==
    LET pieces == ReSplit(text)
    IN SelectSeq([i \in 1..Len(pieces) |-> Strip(pieces[i])], IsSentence)

\* the sentences of the chunks first..Len(chunks), in order
RECURSIVE SentencesFrom(_, _)
SentencesFrom(chunks, first) ==
    IF first > Len(chunks) THEN <<>>
    ELSE SentencesOf(chunks[first].content) \o SentencesFrom(chunks, first + 1)

\* the number of chunks the candidates before candidate i became
RECURSIVE ChunksBefore(_)
ChunksBefore(i) == IF i <= 1 THEN 0 ELSE ChunksBefore(i - 1) + Len(ckParts[i - 1])

\* C26: the sub-chunks of a split candidate with id P stand in the output
\* where the candidate stood, in text order, with the ids P_0, P_1, ... and
\* the candidate's source type, section title and timestamp; a candidate
\* that is not split stands there itself; and the section of Scenario B
\* with chunk size 1000 gives exactly 2 chunks, the second with id P_1.
C26_SubChunksInPlace ==
    ckPc = "done" =>
        /\ \A i \in 1..Len(ckCandidates) :
            LET parent == ckCandidates[i]
                placed == SubSeq(ckFinal, ChunksBefore(i) + 1,
                                 ChunksBefore(i) + Len(ckParts[i]))
            IN /\ placed = ckParts[i]
               /\ Len(parent.content) <= ckSize => placed = <<parent>>
               /\ Len(parent.content) > ckSize =>
                    /\ \A j \in 1..Len(placed) :
                        /\ placed[j].id = parent.id \o "_" \o ToString(j - 1)
                        /\ placed[j].type = parent.type
                        /\ placed[j].source = parent.source
                        /\ placed[j].section_title = parent.section_title
                        /\ placed[j].timestamp = parent.timestamp
                    /\ SentencesFrom(placed, 1) = SentencesOf(parent.content)
        /\ Len(ckFinal) = ChunksBefore(Len(ckCandidates) + 1)
        /\ (/\ ckTranscript = <<>>
            /\ Len(ckNotes) = 1
            /\ ckNotes[1].content = ScenarioContent(30)
            /\ ckSize = DEFAULT_CHUNK_SIZE) =>
                /\ Len(ckFinal) = 2
                /\ ckFinal[2].id = ckCandidates[1].id \o "_1"

\* Scenario B has been chunked, the section titled "Intro"
C26_Witness ==
    /\ ckPc = "done"
    /\ ckSize = DEFAULT_CHUNK_SIZE
    /\ ckTranscript = <<>>
    /\ Len(ckNotes) = 1
    /\ Len(ckNotes[1].content) = 1500
    /\ ckCandidates[1].section_title = ScenarioTitle
    /\ ckCandidates[1].id = "notes_0"
    /\ Len(ckFinal) = 2
    /\ ckFinal[2].id = "notes_0_1"
    /\ ckFinal[2].section_title = ScenarioTitle

(***************************************************************************)
(* The context specification: the ranked chunks of one answer_question     *)
(* call, handed to _prepare_context by _generate_answer (line 306) and     *)
(* then to _process_sources (line 229).                                    *)
(***************************************************************************)
MaxContextChunks == 2

\* the metadata of a retrieved chunk: of a transcript segment, of a notes
\* section with title and timestamp, of a key point of a section without
\* title, of a quote with an empty timestamp
ContextMetadata ==
    {[type |-> "transcript_segment", start_time |-> ScenarioTimestamp,
      end_time |-> ScenarioTimestamp],
     [type |-> "notes_section", section_title |-> ScenarioTitle,
      timestamp |-> ScenarioTimestamp],
     [type |-> "key_point", section_title |-> <<>>, timestamp |-> DEFAULT_TIMESTAMP],
     [type |-> "quote", section_title |-> ScenarioTitle, timestamp |-> <<>>]}

ContextContents == {<<"a">>, <<"b", "\n", "b">>}

ContextChunks ==
    {[content |-> content, type |-> metadata.type, metadata |-> metadata,
      distance |-> Rat(1, 2), relevance_score |-> Rat(1, 2)] :
        content \in ContextContents, metadata \in ContextMetadata}

ContextInit ==
    /\ ChunkIdle
    /\ RankIdle
    /\ SysInit
    /\ fnPc = "call"
    /\ fnArg \in SeqsUpTo(ContextChunks, MaxContextChunks)
    /\ fnResult = [context |-> <<>>, sources |-> <<>>]

\* line 306
PrepareContext ==
    /\ fnPc = "call"
    /\ fnPc' = "context"
    /\ fnResult' = [fnResult EXCEPT !.context = prepare_context(fnArg)]
    /\ UNCHANGED <<fnArg, ckVars, rkVars, sysVars, qVars>>

\* line 229
ProcessSources ==
    /\ fnPc = "context"
    /\ fnPc' = "done"
    /\ fnResult' = [fnResult EXCEPT !.sources = process_sources(fnArg)]
    /\ UNCHANGED <<fnArg, ckVars, rkVars, sysVars, qVars>>

ContextNext == PrepareContext \/ ProcessSources

SpecContext == ContextInit /\ [][ContextNext]_vars

\* a header "Source i", the title of the chunk if it has one, its
\* timestamp in brackets if it has one, and the content
HasValue(metadata, key) == key \in DOMAIN metadata /\ metadata[key] # <<>>

EntryOf(i, chunk) ==
    <<"S", "o", "u", "r", "c", "e", " ">> \o Decimal(i)
    \o (IF HasValue(chunk.metadata, "section_title")
        THEN <<" ", "-", " ">> \o chunk.metadata.section_title ELSE <<>>)
    \o (IF HasValue(chunk.metadata, "timestamp")
        THEN <<" ", "[">> \o chunk.metadata.timestamp \o <<"]">> ELSE <<>>)
    \o <<":", "\n">> \o chunk.content \o <<"\n">>

\* where entry i starts in the context: after the entries before it and
\* the empty line that follows each of them
RECURSIVE EntryStart(_)
EntryStart(i) ==
    IF i <= 1 THEN 1
    ELSE EntryStart(i - 1) + Len(EntryOf(i - 1, fnArg[i - 1])) + 1

\* C27: the context has exactly one entry per chunk, in rank order: entry
\* i is the header "Source i", the section title when the chunk has one,
\* the bracketed timestamp when it has one, and the content of the i-th
\* chunk; an empty line stands between two entries and nothing else is in
\* the context; and the sources hold the same chunks in the same order.
C27_ContextInRankOrder ==
    /\ fnPc \in {"context", "done"} =>
        /\ \A i \in 1..Len(fnArg) :
            /\ SubSeq(fnResult.context, EntryStart(i),
                      EntryStart(i) + Len(EntryOf(i, fnArg[i])) - 1)
                   = EntryOf(i, fnArg[i])
            /\ i < Len(fnArg) =>
                   fnResult.context[EntryStart(i) + Len(EntryOf(i, fnArg[i]))] = "\n"
        /\ Len(fnResult.context) =
               IF fnArg = <<>> THEN 0 ELSE EntryStart(Len(fnArg) + 1) - 2
    /\ fnPc = "done" =>
        /\ Len(fnResult.sources) = Len(fnArg)
        /\ \A i \in 1..Len(fnArg) :
            /\ fnResult.sources[i].content = fnArg[i].content
            /\ fnResult.sources[i].relevance_score = fnArg[i].relevance_score
            /\ fnResult.sources[i].source_type = fnArg[i].metadata.type

\* two chunks were assembled: one with title and timestamp, one with
\* neither
C27_Witness ==
    /\ fnPc = "done"
    /\ Len(fnArg) = 2
    /\ HasValue(fnArg[1].metadata, "section_title")
    /\ HasValue(fnArg[1].metadata, "timestamp")
    /\ ~HasValue(fnArg[2].metadata, "section_title")
    /\ ~HasValue(fnArg[2].metadata, "timestamp")
    /\ fnArg[1].content # fnArg[2].content
    /\ Len(fnResult.sources) = 2

(***************************************************************************)
(* Claims about timeouts, checked under SpecIndex.  No method takes a      *)
(* timeout, so a network-bound call ends early only when its provider      *)
(* gives up by itself and raises; that is the provider raising.            *)
(***************************************************************************)
\* an embedding call of the running or last build timed out, and the
\* store took every batch handed to it
EmbeddingTimedOut ==
    /\ lastCall \in {"running", "setup_returned", "setup_raised"}
    /\ \E k \in 1..Len(batchLog) : batchLog[k].embedding = "failed"
    /\ \A k \in 1..Len(batchLog) : batchLog[k].add = "stored"

\* C28: when a network-bound call of a build times out, the build fails
\* and only the build: it does not return normally, and the handle is the
\* collection that was current at the call or the new collection fully
\* built, never a partially built one.
C28_TimeoutFailsOnlyTheCall ==
    EmbeddingTimedOut =>
        /\ lastCall # "setup_returned"
        /\ collection = handleAtCall \/ FullyIndexed(collection)

(***************************************************************************)
(* The totals specification: builds whose candidates are kept, split in    *)
(* two or split into nothing, and a build of two batches; the embedding    *)
(* provider may fail in any batch; get_collection_stats between any two    *)
(* steps.                                                                  *)
(***************************************************************************)
\* transcripts of a segment that fits every chunk_size drawn, of segments of
\* terminators only, of a segment of two sentences
TotalsTranscripts ==
    {<<Segment(<<"a">>), Segment(<<".", ".", ".">>)>>,
     <<Segment(<<".", ".", ".">>)>>,
     <<Segment(<<"a", ".", "b">>)>>}

TotalsInputs ==
    {[transcript |-> transcript, notes |-> <<>>, chunk_size |-> chunk_size] :
         transcript \in TotalsTranscripts, chunk_size \in 1..MaxChunkSize}
    \cup {input \in IndexInputs : Len(input.transcript) = BATCH_SIZE + 3}

TotalsNext ==
    \/ \E input \in TotalsInputs : SetupCall(input)
    \/ SetupCreate
    \/ SetupCreateRaises
    \/ SetupChunk
    \/ StoreBatch
    \/ StoreBatchRaises
    \/ SetupReturn
    \/ ClearCollection
    \/ GetCollectionStats

SpecTotals == Init /\ [][TotalsNext]_vars

\* the candidates of the build in hand that _split_large_chunk turned into
\* no sub-chunk at all
VanishedCandidates ==
    LET candidates == Candidates(buildInput.transcript, buildInput.notes)
    IN {i \in 1..Len(candidates) :
           SplitOrKeep(candidates[i], buildInput.chunk_size) = <<>>}

\* setup_vector_store has returned and nothing was called since but
\* get_collection_stats
JustReturned == lastCall = "setup_returned" /\ pc = "idle"

\* the value returned, the collection created by the call and the list of
\* _create_chunks agree on the number of chunks
TotalsAgree ==
    JustReturned =>
        /\ setupReturn.collection_name = collection
        /\ collection # handleAtCall
        /\ collection \in DOMAIN store
        /\ setupReturn.total_chunks = Len(store[collection])
        /\ setupReturn.total_chunks =
               Len(create_chunks(buildInput.transcript, buildInput.notes,
                                 buildInput.chunk_size))

\* a get_collection_stats that answers after the return reports the same
\* number as count()
CountAgrees ==
    (JustReturned /\ lastStats' # lastStats /\ lastStats'.kind = "stats") =>
        lastStats'.total_chunks = setupReturn.total_chunks

\* C30: whenever setup_vector_store returns normally, the total_chunks it
\* reports is the number of chunks stored in the collection the call
\* created, which is what count() gives and is the length of the list
\* _create_chunks returned; so too when an oversized candidate was split
\* into no sub-chunk and when the embedding failed for some batches.
C30_TotalIsStoredCount == []TotalsAgree /\ [][CountAgrees]_vars

\* a build of two candidates has returned 1, one candidate having been split
\* into nothing and the embedding of the batch having failed, and count()
\* has said 1
C30_Witness ==
    /\ JustReturned
    /\ VanishedCandidates # {}
    /\ Len(batchLog) = 1
    /\ batchLog[1].embedding = "failed"
    /\ setupReturn.total_chunks = 1
    /\ lastStats.kind = "stats"
    /\ lastStats.total_chunks = 1
    /\ lastStats.collection_name = collection

\* a build of two batches has returned, the embedding having failed for the
\* first batch and worked for the second
C30_WitnessFailedBatch ==
    /\ JustReturned
    /\ Len(batchLog) = 2
    /\ batchLog[1].embedding = "failed"
    /\ batchLog[2].embedding = "ok"
    /\ setupReturn.total_chunks = BATCH_SIZE + 3

====
